---- MODULE Spec2Model ----
(***************************************************************************)
(* Timber stumpage price harmonization pipeline (mihiarc/timber-prices).   *)
(*                                                                         *)
(* The module models                                                       *)
(*   - the Schema Normalizer (standardize_product_type, standardize_unit)  *)
(*     of scripts/combine_stumpage_data.py,                                *)
(*   - the Conversion Factor Registry of scripts/unit_conversion_factors.py*)
(*   - the Price Unit Converter (main.get_conversion_factor and            *)
(*     main.convert_price) and the unification run  main()  of             *)
(*     scripts/combine_stumpage_data.py,                                   *)
(*   - the TN and USFS PNW integration runs                                *)
(*     (scripts/integrate_tn_forestry.py, scripts/integrate_usfs_pnw.py).  *)
(*                                                                         *)
(* Text is a TLA+ string; Python's  in , lower() and strip() are computed  *)
(* character by character.  A decimal is a reduced fraction <<n, d>> of    *)
(* dollars (or tons), and pandas' missing value is NaN == << >>.  A missing*)
(* text is the marker NA.                                                  *)
(***************************************************************************)
EXTENDS Integers, Sequences, FiniteSets, TLC

VARIABLES
    normFn,      \* normalizer under test: "product" or "unit"
    normIn,      \* the text first handed to the normalizer (or NA)
    normOut,     \* the normalizer's latest result
    normFirst,   \* the normalizer's result on normIn (NA before the first call)
    normCalls,   \* how many times the normalizer has been applied
    convRec,     \* the record handed to the Price Unit Converter
    convFirst,   \* the record as it was after the first conversion pass
    convCalls,   \* how many conversion passes have been applied to convRec
    unified,     \* data/processed/stumpage_unified.csv: NoFile, or File(rows written last)
    nhPhase,     \* where parse_stumpage_pdf stands on its page: "page", "header", "rows", "done"
    nhTable,     \* the table pdfplumber extracted from the page: a sequence of rows of cells
    nhRegion,    \* current_region of the page (NA for None)
    nhHeader,    \* header_row_idx, counted from 1 (0 for None)
    nhPos,       \* index of the table row scanned last
    nhRecords,   \* records appended so far
    nhRows,      \* for each appended record, the index of the table row it came from
    stats,       \* loading summary the last unification run printed; << >> if it
                 \* printed none or another script ran since
    mainError,   \* exception that ended the last unification run; NA if none or
                 \* another script ran since
    withData,    \* names of the sources whose file the last unification run found
                 \* readable and with rows; {NA} before it or if another script ran since
    texIn,       \* Texas parser: all_records, in the order the reports were parsed
    texOut,      \* Texas parser: the frame written to the parsed CSV
    texFirst,    \* texOut of the first run
    texCalls,    \* runs of the Texas parser so far
    mktMarket,   \* market lookup: the market asked for
    mktState,    \* market lookup: the state asked for
    mktStates,   \* result of get_market_states(mktMarket); <<NA>> before the call
    mktMarkets,  \* result of get_state_markets(mktState); <<NA>> before the call
    t5Lines,     \* 5-year report parser: the lines of the first page of the report
    t5Pos,       \* 5-year report parser: index of the line handled last
    t5Flags,     \* 5-year report parser: the five section flags
    t5Records,   \* 5-year report parser: records appended so far
    t5Rows,      \* for each of t5Records, the index of the line it came from
    cpFile,      \* NH parser copies: name of the PDF file
    cpPages,     \* NH parser copies: the table of each page of the PDF
    cpParse,     \* what parse_stumpage_pdf of parse_nh_stumpage.py returned; NotParsed before the call
    cpDownload,  \* what parse_stumpage_pdf of download_nh_stumpage.py returned; NotParsed before the call
    pgKind,      \* pages of a report: the parser, "nh", "bimonthly" or "annual"
    pgDoc,       \* the pages of the PDF: a table for each (NH), the lines of each (Texas)
    pgYear,      \* year of the Texas parsers, 0 for None, which is as false as 0
    pgPage,      \* how many pages the page loop has been through
    pgContext,   \* current_region, current_species, current_product as the last page left them
    pgRecords,   \* the records appended so far
    pgOrigin     \* for each record the page and the line or row it was read from

normVars == <<normFn, normIn, normOut, normFirst, normCalls>>
convVars == <<convRec, convFirst, convCalls>>
fileVars == <<unified>>
nhVars == <<nhPhase, nhTable, nhRegion, nhHeader, nhPos, nhRecords, nhRows>>
runVars == <<stats, mainError, withData>>
texVars == <<texIn, texOut, texFirst, texCalls>>
mktVars == <<mktMarket, mktState, mktStates, mktMarkets>>
t5Vars == <<t5Lines, t5Pos, t5Flags, t5Records, t5Rows>>
cpVars == <<cpFile, cpPages, cpParse, cpDownload>>
pgVars == <<pgKind, pgDoc, pgYear, pgPage, pgContext, pgRecords, pgOrigin>>
vars == <<normFn, normIn, normOut, normFirst, normCalls, convRec, convFirst, convCalls, unified, nhPhase, nhTable, nhRegion, nhHeader, nhPos, nhRecords, nhRows, stats, mainError, withData, texIn, texOut, texFirst, texCalls, mktMarket, mktState, mktStates, mktMarkets, t5Lines, t5Pos, t5Flags, t5Records, t5Rows, cpFile, cpPages, cpParse, cpDownload, pgKind, pgDoc, pgYear, pgPage, pgContext, pgRecords, pgOrigin>>

-----------------------------------------------------------------------------
(* Bounds *)

\* how often a normalizer or the converter is re-applied to its own output
MaxCalls == 2

\* rows in the source files of one unification run, all files together
MaxRows == 1

-----------------------------------------------------------------------------
(* Missing values *)

\* pandas' missing text (None / NaN in an object column); pd.isna(x) is x = NA
NA == "<NA>"

\* pandas' missing number
NaN == << >>

\* a CSV file that does not exist, and one holding the rows `rows`
NoFile == [exists |-> FALSE, rows |-> << >>]
File(rows) == [exists |-> TRUE, rows |-> rows]

\* current_region, current_species and current_product as None
NoContext == [region |-> NA, species |-> NA, product |-> NA]

\* a parser that has not been called yet
NotParsed == [called |-> FALSE, records |-> << >>]

\* the five section flags of parse_5year_report as they are before its loop
NoSection ==
    [in_large_pine |-> FALSE, in_small_pine |-> FALSE, in_hardwood_saw |-> FALSE,
     in_pine_pulp |-> FALSE, in_hardwood_pulp |-> FALSE]

-----------------------------------------------------------------------------
(* Python str operations *)

UpperChars == "ABCDEFGHIJKLMNOPQRSTUVWXYZ"
LowerChars == "abcdefghijklmnopqrstuvwxyz"

CharAt(s, i) == SubSeq(s, i, i)

\* kw in s
Contains(s, kw) ==
    \E i \in 1..(Len(s) - Len(kw) + 1) : SubSeq(s, i, i + Len(kw) - 1) = kw

\* any(x in s for x in kws)
ContainsAny(s, kws) == \E kw \in kws : Contains(s, kw)

LowerChar(c) ==
    IF \E i \in 1..26 : CharAt(UpperChars, i) = c
    THEN LET i == CHOOSE j \in 1..26 : CharAt(UpperChars, j) = c
         IN  CharAt(LowerChars, i)
    ELSE c

RECURSIVE LowerFrom(_, _)
LowerFrom(s, i) ==
    IF i > Len(s) THEN "" ELSE LowerChar(CharAt(s, i)) \o LowerFrom(s, i + 1)

\* s.lower()
Lower(s) == LowerFrom(s, 1)

IsSpace(c) == c \in {" ", "\t", "\n"}

\* s.strip()
Strip(s) ==
    LET n == Len(s)
        nonsp == {i \in 1..n : ~IsSpace(CharAt(s, i))}
    IN  IF nonsp = {} THEN ""
        ELSE LET a == CHOOSE i \in nonsp : \A j \in nonsp : i <= j
                 b == CHOOSE i \in nonsp : \A j \in nonsp : j <= i
             IN  SubSeq(s, a, b)

-----------------------------------------------------------------------------
(* Schema Normalizer: standardize_product_type *)

\* the rules from "Biomass" down to the final  return product
product_rules_tail(product) ==
    IF Contains(product, "biomass") THEN "biomass"
    ELSE IF Contains(product, "bolt") THEN "boltwood"
    ELSE IF Contains(product, "stud") THEN "studwood"
    ELSE IF Contains(product, "cordwood") \/ product = "cord" THEN "cordwood"
    ELSE IF Contains(product, "post") THEN "posts"
    ELSE IF Contains(product, "crosstie") \/ Contains(product, "tie") THEN "crossties"
    ELSE IF Contains(product, "plylog") THEN "plylogs"
    ELSE IF Contains(product, "t-wood") \/ Contains(product, "topwood") THEN "topwood"
    ELSE IF Contains(product, "fuelchip") THEN "fuelchips"
    ELSE IF Contains(product, "stumpage") THEN "sawtimber"
    ELSE IF Contains(product, "total") \/ Contains(product, "index") THEN "total_index"
    ELSE product

\* product_rules_mid with the poles rule moved in front of the pulpwood rule
product_rules_mid_poles_first(product) ==
    IF Contains(product, "pole") THEN "poles"
    ELSE IF Contains(product, "pulpwood") \/ Contains(product, "pulp") THEN "pulpwood"
    ELSE IF Contains(product, "chip") /\ Contains(product, "saw") THEN "chip-n-saw"
    ELSE IF Contains(product, "veneer") THEN "veneer"
    ELSE IF \/ Contains(product, "firewood")
            \/ Contains(product, "fuelwood")
            \/ (Contains(product, "fuel") /\ ~Contains(product, "chip"))
         THEN "firewood"
    ELSE IF Contains(product, "fiber") THEN "fiber_fuel"
    ELSE product_rules_tail(product)

\* the rules from "Pulpwood" down to "Fiber/Fuel combined"
product_rules_mid(product) ==
    IF Contains(product, "pulpwood") \/ Contains(product, "pulp") THEN "pulpwood"
    ELSE IF Contains(product, "chip") /\ Contains(product, "saw") THEN "chip-n-saw"
    ELSE IF Contains(product, "veneer") THEN "veneer"
    ELSE IF Contains(product, "pole") THEN "poles"
    ELSE IF \/ Contains(product, "firewood")
            \/ Contains(product, "fuelwood")
            \/ (Contains(product, "fuel") /\ ~Contains(product, "chip"))
         THEN "firewood"
    ELSE IF Contains(product, "fiber") THEN "fiber_fuel"
    ELSE product_rules_tail(product)

\* the sawtimber, generic log and MBF rules, on the lower-cased, stripped text
product_rules_head(product) ==
    IF ContainsAny(product, {"sawtimber", "sawlog", "saw log", "sawlogs"})
    THEN IF Contains(product, "large") THEN "sawtimber_large"
         ELSE IF Contains(product, "small") THEN "sawtimber_small"
         ELSE "sawtimber"
    ELSE IF \/ product \in {"log", "logs"}
            \/ Contains(product, "hardwood_sawlog")
            \/ Contains(product, "softwood_sawlog")
         THEN "sawtimber"
    ELSE IF product = "mbf" THEN "sawtimber"
    ELSE product_rules_mid(product)

\* standardize_product_type without the strip()
standardize_product_type_no_strip(product) ==
    IF product = NA THEN NA
    ELSE product_rules_head(Lower(product))

standardize_product_type(product) ==
    IF product = NA THEN NA
    ELSE product_rules_head(Strip(Lower(product)))

-----------------------------------------------------------------------------
(* Schema Normalizer: standardize_unit *)

\* unit_rules with the ton rule in front of the cord rule
unit_rules_ton_first(unit) ==
    IF Contains(unit, "mbf") \/ Contains(unit, "thousand board") THEN "$/mbf"
    ELSE IF Contains(unit, "ton") THEN "$/ton"
    ELSE IF Contains(unit, "cord") THEN "$/cord"
    ELSE unit

unit_rules(unit) ==
    IF Contains(unit, "mbf") \/ Contains(unit, "thousand board") THEN "$/mbf"
    ELSE IF Contains(unit, "cord") THEN "$/cord"
    ELSE IF Contains(unit, "ton") THEN "$/ton"
    ELSE unit

standardize_unit(unit) ==
    IF unit = NA THEN NA
    ELSE unit_rules(Strip(Lower(unit)))

-----------------------------------------------------------------------------
(* Decimals *)

RECURSIVE GCD(_, _)
GCD(a, b) == IF b = 0 THEN a ELSE GCD(b, a % b)

Abs(n) == IF n < 0 THEN -n ELSE n

\* the decimal n/d, d > 0, in lowest terms
Rat(n, d) == LET g == GCD(Abs(n), d) IN <<n \div g, d \div g>>

\* x / y for decimals, y > 0
RatDiv(x, y) == Rat(x[1] * y[2], x[2] * y[1])

\* dollars and cents
Money(dollars, cents) == Rat(dollars * 100 + cents, 100)

-----------------------------------------------------------------------------
(* Conversion Factor Registry *)

\* .factor of each entry, tons per cord
CORD_TO_TON ==
    [pine_pulpwood           |-> Rat(267, 100),
     pine_loblolly_shortleaf |-> Rat(260, 100),
     pine_longleaf_slash     |-> Rat(278, 100),
     hardwood_soft           |-> Rat(270, 100),
     hardwood_mixed          |-> Rat(280, 100),
     hardwood_hard           |-> Rat(290, 100),
     softwood_avg            |-> Rat(267, 100),
     hardwood_avg            |-> Rat(280, 100)]

\* .factor of each entry, tons per MBF
MBF_TO_TON ==
    [pine_sawtimber_10in     |-> Rat(140, 10),
     pine_sawtimber_14in     |-> Rat(85, 10),
     pine_sawtimber_18in     |-> Rat(72, 10),
     pine_sawtimber_24in     |-> Rat(59, 10),
     pine_sawtimber_avg      |-> Rat(70, 10),
     hardwood_sawtimber_14in |-> Rat(121, 10),
     hardwood_sawtimber_18in |-> Rat(98, 10),
     hardwood_sawtimber_24in |-> Rat(81, 10),
     hardwood_sawtimber_avg  |-> Rat(85, 10)]

\* str(species).lower() if species else ''
species_lower(species) == IF species = NA \/ species = "" THEN "" ELSE Lower(species)

\* get_cord_to_ton_factor with the hard hardwood and soft hardwood groups swapped
get_cord_to_ton_factor_soft_first(species, product_type) ==
    LET sl == species_lower(species)
    IN  IF ContainsAny(sl, {"pine", "spruce", "fir", "hemlock", "cedar", "softwood"})
        THEN CORD_TO_TON.pine_pulpwood
        ELSE IF ContainsAny(sl, {"poplar", "tulip", "sweetgum", "basswood", "soft maple",
                                 "aspen", "cottonwood"})
        THEN CORD_TO_TON.hardwood_soft
        ELSE IF ContainsAny(sl, {"oak", "hickory", "beech", "hard maple", "sugar maple",
                                 "walnut", "cherry"})
        THEN CORD_TO_TON.hardwood_hard
        ELSE CORD_TO_TON.hardwood_mixed

get_cord_to_ton_factor(species, product_type) ==
    LET sl == species_lower(species)
    IN  IF ContainsAny(sl, {"pine", "spruce", "fir", "hemlock", "cedar", "softwood"})
        THEN CORD_TO_TON.pine_pulpwood
        ELSE IF ContainsAny(sl, {"oak", "hickory", "beech", "hard maple", "sugar maple",
                                 "walnut", "cherry"})
        THEN CORD_TO_TON.hardwood_hard
        ELSE IF ContainsAny(sl, {"poplar", "tulip", "sweetgum", "basswood", "soft maple",
                                 "aspen", "cottonwood"})
        THEN CORD_TO_TON.hardwood_soft
        ELSE IF ContainsAny(sl, {"hardwood", "mixed", "ash", "birch", "elm"})
        THEN CORD_TO_TON.hardwood_mixed
        ELSE CORD_TO_TON.hardwood_mixed

get_mbf_to_ton_factor(species, product_type) ==
    LET sl == species_lower(species)
    IN  IF ContainsAny(sl, {"pine", "spruce", "fir", "hemlock", "cedar", "softwood"})
        THEN MBF_TO_TON.pine_sawtimber_avg
        ELSE MBF_TO_TON.hardwood_sawtimber_avg

\* convert_to_per_ton of the registry module (the unification run does not call it)
convert_to_per_ton(price, unit, species, product_type) ==
    IF price = NaN THEN NaN
    ELSE LET unit_lower == IF unit = NA \/ unit = "" THEN "" ELSE Lower(unit)
         IN  IF Contains(unit_lower, "ton") THEN price
             ELSE IF Contains(unit_lower, "cord")
             THEN RatDiv(price, get_cord_to_ton_factor(species, product_type))
             ELSE IF Contains(unit_lower, "mbf")
             THEN RatDiv(price, get_mbf_to_ton_factor(species, product_type))
             ELSE NaN

-----------------------------------------------------------------------------
(* Price Unit Converter: the two closures of main() *)

\* get_conversion_factor whose last branch returns 1.0 instead of None
get_conversion_factor_default_one(row) ==
    LET unit == IF row.unit # NA THEN Lower(row.unit) ELSE ""
        species == IF row.species # NA THEN row.species ELSE ""
    IN  IF Contains(unit, "ton") THEN Rat(1, 1)
        ELSE IF Contains(unit, "cord") THEN get_cord_to_ton_factor(species, row.product_type)
        ELSE IF Contains(unit, "mbf") THEN get_mbf_to_ton_factor(species, row.product_type)
        ELSE Rat(1, 1)

\* get_conversion_factor without the $/ton branch
get_conversion_factor_no_ton(row) ==
    LET unit == IF row.unit # NA THEN Lower(row.unit) ELSE ""
        species == IF row.species # NA THEN row.species ELSE ""
    IN  IF Contains(unit, "cord") THEN get_cord_to_ton_factor(species, row.product_type)
        ELSE IF Contains(unit, "mbf") THEN get_mbf_to_ton_factor(species, row.product_type)
        ELSE NaN

get_conversion_factor(row) ==
    LET unit == IF row.unit # NA THEN Lower(row.unit) ELSE ""
        species == IF row.species # NA THEN row.species ELSE ""
    IN  IF Contains(unit, "ton") THEN Rat(1, 1)
        ELSE IF Contains(unit, "cord") THEN get_cord_to_ton_factor(species, row.product_type)
        ELSE IF Contains(unit, "mbf") THEN get_mbf_to_ton_factor(species, row.product_type)
        ELSE IF Contains(unit, "index") THEN NaN
        ELSE NaN

\* convert_price that converts the price already in price_per_ton when there is one
convert_price_from_converted(row, price_col) ==
    LET price == IF row.price_per_ton # NaN THEN row.price_per_ton ELSE row[price_col]
        factor == row.conversion_factor
        unit == IF row.unit # NA THEN Lower(row.unit) ELSE ""
    IN  IF price = NaN THEN NaN
        ELSE IF factor = NaN THEN NaN
        ELSE IF Contains(unit, "ton") THEN price
        ELSE IF Contains(unit, "cord") \/ Contains(unit, "mbf") THEN RatDiv(price, factor)
        ELSE NaN

convert_price(row, price_col) ==
    IF row[price_col] = NaN THEN NaN
    ELSE LET factor == row.conversion_factor
             unit == IF row.unit # NA THEN Lower(row.unit) ELSE ""
         IN  IF factor = NaN THEN NaN
             ELSE IF Contains(unit, "ton") THEN row[price_col]
             ELSE IF Contains(unit, "cord") \/ Contains(unit, "mbf")
             THEN RatDiv(row[price_col], factor)
             ELSE NaN

\* combined['conversion_factor'] = ...; combined['price_per_ton'] = ...  on one row
conversion_pass(row) ==
    LET withFactor == [row EXCEPT !.conversion_factor = get_conversion_factor(row)]
    IN  [withFactor EXCEPT !.price_per_ton = convert_price(withFactor, "price_avg")]

-----------------------------------------------------------------------------
(* Normalizer inputs *)

\* fragments of the product names the source files use, lower case
ProductWords ==
    {"sawtimber", "sawlog", "saw log", "large", "small", "pine", "hardwood",
     "log", "logs", "mbf", "pulpwood", "pulp", "chip", "chips", "saw",
     "veneer", "pole", "firewood", "fuelwood", "fuel", "fiber", "biomass",
     "bolt", "stud", "cordwood", "cord", "post", "crosstie", "tie", "plylog",
     "t-wood", "topwood", "fuelchip", "stumpage", "total", "index", "xyz"}

\* every value standardize_product_type returns from a rule
CanonicalProducts ==
    {"sawtimber_large", "sawtimber_small", "sawtimber", "pulpwood", "chip-n-saw",
     "veneer", "poles", "firewood", "fiber_fuel", "biomass", "boltwood",
     "studwood", "cordwood", "posts", "crossties", "plylogs", "topwood",
     "fuelchips", "total_index"}

\* product texts as the reports spell them: mixed case, padded
ProductSamples ==
    {"Small Pine Sawtimber", "pine pulpwood", "pine sawlog chips",
     "mystery_product_xyz", "Mystery_Product_XYZ", "  Veneer Logs ", "Logs",
     " MBF", "Chip-N-Saw", "Hardwood Sawlogs", "Fuel Chips", " Other Product ",
     "", "  "}

ProductTexts ==
    ProductWords \cup CanonicalProducts \cup ProductSamples
    \cup {a \o " " \o b : a \in ProductWords, b \in ProductWords}

\* unit texts as the reports spell them
UnitTexts ==
    {"$/ton", "$/cord", "$/mbf", "index", "$/MBF", "MBF", "mbf", "per MBF",
     "$/thousand board feet", "Thousand Board Feet", "Cord", "cords", "$/Cord",
     "Ton", "tons", "per TON", "$/ton ", " $/cord", "Index", "index ", "$/ccf",
     "CCF", "cunit", "each", "", "cord/ton", "ton per mbf", "mbf per cord",
     "$/cubic metre", "Dollars"}

-----------------------------------------------------------------------------
(* The Schema Normalizer applied to one text *)

\* a text is about to be normalized; no record is being converted, no file written
NormInit ==
    /\ normFn \in {"product", "unit"}
    /\ normIn \in (IF normFn = "product" THEN ProductTexts ELSE UnitTexts) \cup {NA}
    /\ normOut = normIn
    /\ normFirst = NA
    /\ normCalls = 0
    /\ convRec = NaN
    /\ convFirst = NaN
    /\ convCalls = 0
    /\ unified = NoFile
    /\ nhPhase = "idle"
    /\ nhTable = << >>
    /\ nhRegion = NA
    /\ nhHeader = 0
    /\ nhPos = 0
    /\ nhRecords = << >>
    /\ nhRows = << >>
    /\ stats = << >>
    /\ mainError = NA
    /\ withData = {NA}
    /\ texIn = << >>
    /\ texOut = NaN
    /\ texFirst = NaN
    /\ texCalls = 0
    /\ mktMarket = NA
    /\ mktState = NA
    /\ mktStates = <<NA>>
    /\ mktMarkets = <<NA>>
    /\ t5Lines = << >>
    /\ t5Pos = 0
    /\ t5Flags = NoSection
    /\ t5Records = << >>
    /\ t5Rows = << >>
    /\ cpFile = NA
    /\ cpPages = << >>
    /\ cpParse = NotParsed
    /\ cpDownload = NotParsed
    /\ pgKind = NA
    /\ pgDoc = << >>
    /\ pgYear = 0
    /\ pgPage = 0
    /\ pgContext = NoContext
    /\ pgRecords = << >>
    /\ pgOrigin = << >>

\* df['product_type'].apply(standardize_product_type)
ApplyProduct ==
    /\ normFn = "product"
    /\ normCalls < MaxCalls
    /\ normOut' = standardize_product_type(normOut)
    /\ normFirst' = IF normCalls = 0 THEN normOut' ELSE normFirst
    /\ normCalls' = normCalls + 1
    /\ UNCHANGED <<normFn, normIn, convVars, fileVars, nhVars, runVars, texVars, mktVars, t5Vars, cpVars, pgVars>>

\* df['unit'].apply(standardize_unit)
ApplyUnit ==
    /\ normFn = "unit"
    /\ normCalls < MaxCalls
    /\ normOut' = standardize_unit(normOut)
    /\ normFirst' = IF normCalls = 0 THEN normOut' ELSE normFirst
    /\ normCalls' = normCalls + 1
    /\ UNCHANGED <<normFn, normIn, convVars, fileVars, nhVars, runVars, texVars, mktVars, t5Vars, cpVars, pgVars>>

NormNext == ApplyProduct \/ ApplyUnit

SpecNorm == NormInit /\ [][NormNext]_vars

-----------------------------------------------------------------------------
(* The Price Unit Converter applied to one record *)

\* one row of the unified table, in the order of UNIFIED_COLUMNS
UnifiedRow(source, year, quarter, period_type, region, county, species, product_type, price_avg, price_low, price_high, unit, price_per_ton, conversion_factor, sample_size, notes) ==
    [source |-> source, year |-> year, quarter |-> quarter, period_type |-> period_type,
     region |-> region, county |-> county, species |-> species,
     product_type |-> product_type, price_avg |-> price_avg, price_low |-> price_low,
     price_high |-> price_high, unit |-> unit, price_per_ton |-> price_per_ton,
     conversion_factor |-> conversion_factor, sample_size |-> sample_size,
     notes |-> notes]

\* species texts as the reports spell them
SpeciesTexts ==
    {"Loblolly Pine", "pine", "Spruce/Fir", "Douglas-fir", "Hemlock", "Red Cedar",
     "Softwood", "Red Oak", "Hickory", "Beech", "Hard Maple", "Sugar Maple",
     "Black Walnut", "Black Cherry", "Yellow Poplar", "Tulip", "Sweetgum", "Basswood",
     "Soft Maple", "Aspen", "Cottonwood", "Mixed Hardwood", "White Ash", "Birch",
     "Red Maple", "Oak-Pine", "Oak/Poplar", "Poplar & Oak", "all_species", ""}

\* the units a record can carry when the converter sees it
ConvUnits ==
    {"$/ton", "$/cord", "$/mbf", "index", "$/MBF", "$/ccf", "each", ""}

ConvPrices == {Money(53, 40), Money(100, 0), Money(0, 0)}

\* a canonical record as an adapter hands it over: the two derived fields empty
ConvRecords ==
    {UnifiedRow("MN", 2020, NaN, "annual", "Statewide", NA, species, "pulpwood",
                price, NaN, NaN, unit, NaN, NaN, NaN, NA) :
        species \in SpeciesTexts \cup {NA},
        unit \in ConvUnits \cup {NA},
        price \in ConvPrices \cup {NaN}}

\* a record is about to be converted; no text is being normalized, no file written
ConvInit ==
    /\ convRec \in ConvRecords
    /\ convFirst = NaN
    /\ convCalls = 0
    /\ normFn = "none"
    /\ normIn = NA
    /\ normOut = NA
    /\ normFirst = NA
    /\ normCalls = 0
    /\ unified = NoFile
    /\ nhPhase = "idle"
    /\ nhTable = << >>
    /\ nhRegion = NA
    /\ nhHeader = 0
    /\ nhPos = 0
    /\ nhRecords = << >>
    /\ nhRows = << >>
    /\ stats = << >>
    /\ mainError = NA
    /\ withData = {NA}
    /\ texIn = << >>
    /\ texOut = NaN
    /\ texFirst = NaN
    /\ texCalls = 0
    /\ mktMarket = NA
    /\ mktState = NA
    /\ mktStates = <<NA>>
    /\ mktMarkets = <<NA>>
    /\ t5Lines = << >>
    /\ t5Pos = 0
    /\ t5Flags = NoSection
    /\ t5Records = << >>
    /\ t5Rows = << >>
    /\ cpFile = NA
    /\ cpPages = << >>
    /\ cpParse = NotParsed
    /\ cpDownload = NotParsed
    /\ pgKind = NA
    /\ pgDoc = << >>
    /\ pgYear = 0
    /\ pgPage = 0
    /\ pgContext = NoContext
    /\ pgRecords = << >>
    /\ pgOrigin = << >>

\* the conversion pass of main() on the record
ApplyConversion ==
    /\ convRec # NaN
    /\ convCalls < MaxCalls
    /\ convRec' = conversion_pass(convRec)
    /\ convFirst' = IF convCalls = 0 THEN convRec' ELSE convFirst
    /\ convCalls' = convCalls + 1
    /\ UNCHANGED <<normVars, fileVars, nhVars, runVars, texVars, mktVars, t5Vars, cpVars, pgVars>>

ConvNext == ApplyConversion

SpecConv == ConvInit /\ [][ConvNext]_vars

-----------------------------------------------------------------------------
(* Sequences of rows *)

RECURSIVE Flatten(_)
\* pd.concat(frames, ignore_index=True)
Flatten(frames) ==
    IF frames = << >> THEN << >> ELSE Head(frames) \o Flatten(Tail(frames))

Range(seq) == {seq[i] : i \in 1..Len(seq)}

-----------------------------------------------------------------------------
(* Ordering and sorting *)

\* the characters of the source codes, in code point order
CharOrder == " $-/0123456789ABCDEFGHIJKLMNOPQRSTUVWXYZ_abcdefghijklmnopqrstuvwxyz"

CharRank(c) ==
    IF \E i \in 1..Len(CharOrder) : CharAt(CharOrder, i) = c
    THEN CHOOSE i \in 1..Len(CharOrder) : CharAt(CharOrder, i) = c
    ELSE 0

RECURSIVE StrLessFrom(_, _, _)
StrLessFrom(a, b, i) ==
    IF i > Len(b) THEN FALSE
    ELSE IF i > Len(a) THEN TRUE
    ELSE IF CharAt(a, i) = CharAt(b, i) THEN StrLessFrom(a, b, i + 1)
    ELSE CharRank(CharAt(a, i)) < CharRank(CharAt(b, i))

\* a < b for str
StrLess(a, b) == StrLessFrom(a, b, 1)

\* x < y for decimals
RatLess(x, y) == x[1] * y[2] < y[1] * x[2]

\* the order of sort_values(['source', 'year', 'quarter'], na_position='last')
sort_key_less(a, b) ==
    IF a.source # b.source
    THEN a.source # NA /\ (b.source = NA \/ StrLess(a.source, b.source))
    ELSE IF a.year # b.year THEN a.year < b.year
    ELSE IF a.quarter # b.quarter
    THEN a.quarter # NaN /\ (b.quarter = NaN \/ RatLess(a.quarter, b.quarter))
    ELSE FALSE

RECURSIVE InsertSorted(_, _)
\* x put behind every row of the sorted seq whose key is not greater than its key
InsertSorted(x, seq) ==
    IF seq = << >> THEN <<x>>
    ELSE IF sort_key_less(x, Head(seq)) THEN <<x>> \o seq
    ELSE <<Head(seq)>> \o InsertSorted(x, Tail(seq))

RECURSIVE sort_values(_)
\* df.sort_values(['source', 'year', 'quarter'], na_position='last'): rows with
\* equal keys keep their order
sort_values(df) ==
    IF df = << >> THEN << >>
    ELSE InsertSorted(df[Len(df)], sort_values(SubSeq(df, 1, Len(df) - 1)))

RECURSIVE RatSum(_)
RatSum(xs) ==
    IF xs = << >> THEN Rat(0, 1)
    ELSE LET t == RatSum(Tail(xs))
         IN  Rat(Head(xs)[1] * t[2] + t[1] * Head(xs)[2], Head(xs)[2] * t[2])

\* round(x, 2): to the nearest cent, a tie to the even cent
round2(x) ==
    IF x = NaN THEN NaN
    ELSE LET scaled == x[1] * 100
             lo == scaled \div x[2]
             rem == scaled - lo * x[2]
             cents == IF 2 * rem > x[2] THEN lo + 1
                      ELSE IF 2 * rem < x[2] THEN lo
                      ELSE IF lo % 2 = 0 THEN lo ELSE lo + 1
         IN  Rat(cents, 100)

-----------------------------------------------------------------------------
(* Source adapters of the unification run *)

\* product mapping of load_michigan
michigan_product(x) ==
    IF x = "SAW" THEN "sawtimber" ELSE IF x = "PULP" THEN "pulpwood" ELSE "total_index"

\* load_michigan: one row of mi_stumpage_parsed.csv
load_michigan_row(raw) ==
    UnifiedRow("MI", raw.year, raw.quarter, "quarterly", raw.market_area, NA,
               raw.species_group, michigan_product(raw.product), raw.avg_bid_index,
               NaN, NaN, "index", NaN, NaN, raw.volume,
               "Price index (base=100), not actual price")

\* load_minnesota: one row of mn_stumpage_parsed.csv
load_minnesota_row(raw) ==
    UnifiedRow("MN", raw.year, NaN, "annual", "Statewide", NA, raw.species,
               standardize_product_type(raw.product_type), raw.price, NaN, NaN,
               standardize_unit(raw.unit), NaN, NaN, NaN, NA)

IsDigits(x) == x # "" /\ \A i \in 1..Len(x) : CharAt(x, i) \in
                   {"0", "1", "2", "3", "4", "5", "6", "7", "8", "9"}

\* load_wisconsin: one row of wi_stumpage_parsed.csv
load_wisconsin_row(raw) ==
    UnifiedRow("WI", raw.year, NaN, "annual",
               IF IsDigits(raw.zone) THEN "Zone " \o raw.zone ELSE raw.zone, NA,
               raw.species, standardize_product_type(raw.product_type), raw.price,
               NaN, NaN, "$/cord", NaN, NaN, NaN, "Program: " \o raw.program)

\* the loaders of main(), in its order, that the model runs
Loaders == <<"Michigan", "Minnesota", "Wisconsin">>

\* a file pd.read_csv cannot parse: the loader raises an exception with this message
Unreadable(message) == [exists |-> TRUE, rows |-> << >>, error |-> message]

\* str(e) of the exception loader() raises on the file, NA when it returns a frame
load_raises(file) == IF "error" \in DOMAIN file THEN file.error ELSE NA

\* loader(): an absent file gives an empty frame, else one row per file row
load(name, file) ==
    IF ~file.exists THEN << >>
    ELSE IF name = "Michigan" THEN [i \in 1..Len(file.rows) |-> load_michigan_row(file.rows[i])]
    ELSE IF name = "Minnesota" THEN [i \in 1..Len(file.rows) |-> load_minnesota_row(file.rows[i])]
    ELSE [i \in 1..Len(file.rows) |-> load_wisconsin_row(file.rows[i])]

-----------------------------------------------------------------------------
(* The unification run: main() of combine_stumpage_data.py *)

\* all_data: the non-empty frames, in loader order
all_data(files) ==
    SelectSeq([i \in 1..Len(Loaders) |-> load(Loaders[i], files[i])], LAMBDA df : df # << >>)

\* a concat that returns an empty frame instead of raising
main_raises_never(files) == FALSE

\* pd.concat(all_data) raises ValueError when no loader returned data
main_raises(files) == all_data(files) = << >>

\* a summary that keeps the whole message of the exception
str_prefix_whole(text, n) == text

\* str(e)[:30]
str_prefix(text, n) == SubSeq(text, 1, IF Len(text) < n THEN Len(text) ELSE n)

\* df['year'].min() and df['year'].max()
year_min(df) == CHOOSE y \in {r.year : r \in Range(df)} : \A r \in Range(df) : y <= r.year
year_max(df) == CHOOSE y \in {r.year : r \in Range(df)} : \A r \in Range(df) : r.year <= y

\* a summary entry that always reports no records
stats_entry_no_records(name, file) ==
    [State |-> name, Records |-> 0, Years |-> "-", Status |-> "[yellow]Empty[/yellow]"]

\* the entry the load loop appends to stats for one loader
stats_entry(name, file) ==
    IF load_raises(file) # NA
    THEN [State |-> name, Records |-> 0, Years |-> "-",
          Status |-> "[red]Error: " \o str_prefix(load_raises(file), 30) \o "[/red]"]
    ELSE IF load(name, file) # << >>
    THEN [State |-> name, Records |-> Len(load(name, file)),
          Years |-> ToString(year_min(load(name, file))) \o "-"
                        \o ToString(year_max(load(name, file))),
          Status |-> "[green]OK[/green]"]
    ELSE [State |-> name, Records |-> 0, Years |-> "-", Status |-> "[yellow]Empty[/yellow]"]

\* stats after the load loop
main_stats(files) == [i \in 1..Len(Loaders) |-> stats_entry(Loaders[i], files[i])]

\* the frame main() writes to stumpage_unified.csv: the loaders' rows in loader
\* order, each with conversion_factor and price_per_ton filled in
main_combined(files) ==
    LET combined == Flatten(all_data(files))
    IN  [i \in 1..Len(combined) |-> conversion_pass(combined[i])]

-----------------------------------------------------------------------------
(* Reading the unified file back *)

\* the texts pd.read_csv takes for a missing value
CsvNaTexts == {"", "NA", "N/A", "n/a", "nan", "NaN", "null", "NULL", "None", "<NA>", "#N/A"}

read_text(t) == IF t \in CsvNaTexts THEN NA ELSE t

\* one row of pd.read_csv(UNIFIED_PATH)
read_csv_row(r) ==
    [r EXCEPT !.source = read_text(@), !.period_type = read_text(@),
              !.region = read_text(@), !.county = read_text(@),
              !.species = read_text(@), !.product_type = read_text(@),
              !.unit = read_text(@), !.notes = read_text(@)]

read_csv(file) == [i \in 1..Len(file.rows) |-> read_csv_row(file.rows[i])]

-----------------------------------------------------------------------------
(* Input files of the unification run *)

MnRaw(species, unit, price) ==
    [year |-> 2020, species |-> species, product_type |-> "Pulpwood", price |-> price,
     unit |-> unit]

\* rows of mn_stumpage_parsed.csv: each unit spelling, with and without a price
MinnesotaRows ==
    {MnRaw("Loblolly Pine", "$/Ton", Money(100, 0)),
     MnRaw("Loblolly Pine", "Cords", Money(53, 40)),
     MnRaw("Red Oak", "MBF", Money(100, 0)),
     MnRaw("Red Oak", "CCF", Money(100, 0)),
     MnRaw("Red Oak", "Index", Money(100, 0)),
     MnRaw("Red Oak", NA, Money(100, 0)),
     MnRaw(NA, "tons", NaN)}

\* rows of mi_stumpage_parsed.csv
MichiganRows ==
    {[year |-> 2020, quarter |-> Rat(1, 1), market_area |-> "UP", species_group |-> sp,
      product |-> "SAW", avg_bid_index |-> Money(100, 0), volume |-> Rat(10, 1)] :
        sp \in {"Pine", "Oak"}}

\* rows of wi_stumpage_parsed.csv
WisconsinRows ==
    {[year |-> 2020, zone |-> "1", species |-> "Aspen", product_type |-> "Cordwood",
      price |-> Money(100, 0), program |-> "MFL"]}

SourceRows(name) ==
    IF name = "Michigan" THEN MichiganRows
    ELSE IF name = "Minnesota" THEN MinnesotaRows
    ELSE WisconsinRows

\* the files of n rows a loader may find; with n = 0 no file, or a file without rows
FilesOfLen(name, n) ==
    IF n = 0 THEN {NoFile, File(<< >>)} ELSE {File(rows) : rows \in [1..n -> SourceRows(name)]}

\* the source files of one run: at most MaxRows rows in all
UnifyInputs ==
    UNION {{<<mi, mn, wi>> : mi \in FilesOfLen("Michigan", c[1]),
                             mn \in FilesOfLen("Minnesota", c[2]),
                             wi \in FilesOfLen("Wisconsin", c[3])} :
           c \in {d \in [1..3 -> 0..MaxRows] : d[1] + d[2] + d[3] <= MaxRows}}

\* messages of the exceptions pd.read_csv raises: a file of zero bytes, and a
\* line with more fields than the header
EmptyDataError == "No columns to parse from file"
ParserError == "Error tokenizing data. C error: Expected 7 fields in line 3, saw 8"

\* source files with a repeated row, two sources with data beside a missing or
\* unreadable one, and every combination of missing and unreadable source
\* files beside at most one source with data
FaultyInputs ==
    LET mi == CHOOSE r \in MichiganRows : r.species_group = "Pine"
        mn == CHOOSE r \in MinnesotaRows : r.unit = "Cords"
        wi == CHOOSE r \in WisconsinRows : TRUE
        faulty == {NoFile, Unreadable(EmptyDataError), Unreadable(ParserError)}
    IN  {<<File(<<mi, mi>>), NoFile, NoFile>>,
         <<Unreadable(ParserError), File(<<mn>>), File(<<wi>>)>>,
         <<File(<<mi>>), NoFile, File(<<wi>>)>>}
            \cup {f \in (faulty \cup {File(<<mi>>)}) \X (faulty \cup {File(<<mn>>)})
                            \X (faulty \cup {File(<<wi>>)}) :
                     Cardinality({i \in 1..3 : f[i] \notin faulty}) <= 1}

-----------------------------------------------------------------------------
(* The pipeline: runs of the three scripts that write the unified file *)

\* before the first run there is no unified file
Init ==
    /\ unified = NoFile
    /\ normFn = "none"
    /\ normIn = NA
    /\ normOut = NA
    /\ normFirst = NA
    /\ normCalls = 0
    /\ convRec = NaN
    /\ convFirst = NaN
    /\ convCalls = 0
    /\ nhPhase = "idle"
    /\ nhTable = << >>
    /\ nhRegion = NA
    /\ nhHeader = 0
    /\ nhPos = 0
    /\ nhRecords = << >>
    /\ nhRows = << >>
    /\ stats = << >>
    /\ mainError = NA
    /\ withData = {NA}
    /\ texIn = << >>
    /\ texOut = NaN
    /\ texFirst = NaN
    /\ texCalls = 0
    /\ mktMarket = NA
    /\ mktState = NA
    /\ mktStates = <<NA>>
    /\ mktMarkets = <<NA>>
    /\ t5Lines = << >>
    /\ t5Pos = 0
    /\ t5Flags = NoSection
    /\ t5Records = << >>
    /\ t5Rows = << >>
    /\ cpFile = NA
    /\ cpPages = << >>
    /\ cpParse = NotParsed
    /\ cpDownload = NotParsed
    /\ pgKind = NA
    /\ pgDoc = << >>
    /\ pgYear = 0
    /\ pgPage = 0
    /\ pgContext = NoContext
    /\ pgRecords = << >>
    /\ pgOrigin = << >>

\* the file is there, pd.read_csv can parse it and it holds rows
has_rows(file) == file.exists /\ "error" \notin DOMAIN file /\ file.rows # << >>

\* pd.concat([]) of line 630
ConcatError == "ValueError: No objects to concatenate"

\* a write that appends to the file it finds
to_csv_append(existing, rows) ==
    File((IF existing.exists THEN existing.rows ELSE << >>) \o rows)

\* combined.to_csv(output_path, index=False): the file is opened in mode "w"
to_csv(existing, rows) == File(rows)

\* what main() does for each choice of source files
UnifyRuns ==
    {[raises |-> main_raises(files),
      stats |-> main_stats(files),
      withData |-> {Loaders[i] : i \in {j \in 1..Len(Loaders) : has_rows(files[j])}},
      combined |-> IF main_raises(files) THEN << >> ELSE main_combined(files)] :
        files \in UnifyInputs \cup FaultyInputs}

\* python combine_stumpage_data.py: a full rewrite of the unified file, or, when
\* no source has data, an exception before anything is written
Unify ==
    \E run \in UnifyRuns :
        /\ unified' = IF run.raises THEN unified ELSE to_csv(unified, run.combined)
        /\ stats' = IF run.raises THEN << >> ELSE run.stats
        /\ mainError' = IF run.raises THEN ConcatError ELSE NA
        /\ withData' = run.withData
        /\ UNCHANGED <<normVars, convVars, nhVars, texVars, mktVars, t5Vars, cpVars, pgVars>>

-----------------------------------------------------------------------------
(* TN integration: integrate_tn_forestry.py *)

MBF_TO_TONS_HARDWOOD == Rat(50, 10)
MBF_TO_TONS_SOFTWOOD == Rat(40, 10)

\* the (calendar_year, timber_type) groups of df.groupby, in key order
tn_group_less(a, b) == IF a[1] # b[1] THEN a[1] < b[1] ELSE StrLess(a[2], b[2])

RECURSIVE tn_sorted_keys(_)
\* the group keys in ascending order
tn_sorted_keys(keys) ==
    IF keys = {} THEN << >>
    ELSE LET m == CHOOSE x \in keys : \A y \in keys \ {x} : tn_group_less(x, y)
         IN  <<m>> \o tn_sorted_keys(keys \ {m})

\* df.groupby(['calendar_year', 'timber_type']): the keys present, sorted
tn_groups(df) == tn_sorted_keys({<<r.calendar_year, r.timber_type>> : r \in Range(df)})

\* the price_per_mbf values of one group
tn_group_prices(df, key) ==
    LET group == SelectSeq(df, LAMBDA r : <<r.calendar_year, r.timber_type>> = key)
    IN  [i \in 1..Len(group) |-> group[i].price_per_mbf]

RatMin(xs) == CHOOSE x \in Range(xs) : \A y \in Range(xs) : ~RatLess(y, x)
RatMax(xs) == CHOOSE x \in Range(xs) : \A y \in Range(xs) : ~RatLess(x, y)

\* the row transform_to_unified appends for one group of the aggregation
tn_unified_row(df, key) ==
    LET prices == tn_group_prices(df, key)
        price_avg == round2(RatDiv(RatSum(prices), Rat(Len(prices), 1)))
        species == IF key[2] = "hardwood" THEN "mixed_hardwood"
                   ELSE IF key[2] = "pine" THEN "southern_pine"
                   ELSE "mixed"
        mbf_to_tons == IF key[2] = "hardwood" THEN MBF_TO_TONS_HARDWOOD
                       ELSE IF key[2] = "pine" THEN MBF_TO_TONS_SOFTWOOD
                       ELSE Rat(45, 10)
    IN  UnifiedRow("TN", key[1], NaN, "annual", "Tennessee", NA, species, "sawtimber",
                   price_avg, round2(RatMin(prices)), round2(RatMax(prices)), "$/MBF",
                   round2(RatDiv(price_avg, mbf_to_tons)), mbf_to_tons,
                   Rat(Len(prices), 1),
                   "TN State Forest timber sales (FY " \o ToString(key[1])
                       \o "). Doyle Rule. Calculated from winning bids.")

transform_to_unified(df) ==
    LET agg == tn_groups(df)
    IN  [i \in 1..Len(agg) |-> tn_unified_row(df, agg[i])]

\* main() whose replacement keeps the TN records and drops those of the other
\* sources: the filter of the replace branch turned around
integrate_tn_filter_inverted(existing_df, tn_unified) ==
    LET existing_tn == SelectSeq(existing_df, LAMBDA r : r.source = "TN")
        tn_years == {r.year : r \in Range(existing_tn)}
        new_years == SelectSeq(tn_unified, LAMBDA r : r.year \notin tn_years)
    IN  sort_values(IF Len(existing_tn) > 0 /\ Len(new_years) = 0
                    THEN existing_tn \o tn_unified
                    ELSE existing_df \o new_years)

\* main() of integrate_tn_forestry.py from the existing frame to the frame it saves
integrate_tn(existing_df, tn_unified) ==
    LET existing_tn == SelectSeq(existing_df, LAMBDA r : r.source = "TN")
        tn_years == {r.year : r \in Range(existing_tn)}
        new_years == SelectSeq(tn_unified, LAMBDA r : r.year \notin tn_years)
        unified_df ==
            IF Len(existing_tn) > 0
            THEN IF Len(new_years) > 0
                 THEN existing_df \o new_years
                 ELSE SelectSeq(existing_df, LAMBDA r : r.source # "TN") \o tn_unified
            ELSE existing_df \o tn_unified
    IN  sort_values(unified_df)

TnSale(year, type, price) ==
    [calendar_year |-> year, timber_type |-> type, price_per_mbf |-> price]

\* sales of tn_state_forest_sales.csv: each timber type, two years
TnSalesRows ==
    {TnSale(2023, "hardwood", Money(300, 0)), TnSale(2023, "pine", Money(300, 0)),
     TnSale(2024, "mixed", Money(300, 0))}

\* the sales files: one sale, two sales of one year and timber type, or sales
\* of two years
TnInputs ==
    {<<sale>> : sale \in TnSalesRows}
        \cup {<<TnSale(2023, "hardwood", Money(300, 0)),
                TnSale(2023, "hardwood", Money(500, 50))>>,
              <<TnSale(2023, "pine", Money(300, 0)), TnSale(2024, "mixed", Money(300, 0))>>}

\* transform_to_unified(load_tn_sales()) for each sales file
TnBatches == {transform_to_unified(sales) : sales \in TnInputs}

\* python integrate_tn_forestry.py; without a unified file pd.read_csv raises
IntegrateTN ==
    \E tn_unified \in TnBatches :
        /\ unified' = IF ~unified.exists THEN unified
                      ELSE File(integrate_tn(read_csv(unified), tn_unified))
        /\ stats' = << >>
        /\ mainError' = NA
        /\ withData' = {NA}
        /\ UNCHANGED <<normVars, convVars, nhVars, texVars, mktVars, t5Vars, cpVars, pgVars>>

-----------------------------------------------------------------------------
(* USFS PNW integration: integrate_usfs_pnw.py *)

\* the keys of REGION_TO_STATES, each with "_".join(states)
REGION_TO_STATES(region) ==
    CASE region = "Montana_Idaho" -> "MT_ID"
      [] region = "Washington_Oregon" -> "WA_OR"
      [] region = "California" -> "CA"
      [] region = "Alaska" -> "AK"
      [] region = "Northern_Region_MT_ID" -> "MT_ID"
      [] OTHER -> NA

SUBREGION_TO_STATE(subregion) ==
    CASE subregion = "Montana" -> "MT"
      [] subregion = "Idaho" -> "ID"
      [] subregion = "Washington" -> "WA"
      [] subregion = "Oregon" -> "OR"
      [] subregion = "California" -> "CA"
      [] subregion = "Alaska" -> "AK"
      [] subregion = "Montana_Idaho" -> "MT_ID"
      [] subregion = "Washington_Oregon" -> "WA_OR"
      [] subregion = "Northern_Region_MT_ID" -> "MT_ID"
      [] subregion = "Intermountain_Region" -> "ID"
      [] subregion = "Pacific_Northwest_WA_OR" -> "WA_OR"
      [] subregion = "Pacific_Southwest_CA" -> "CA"
      [] OTHER -> NA

SPECIES_MAP(species_raw) ==
    CASE species_raw = "Douglas-fir" -> "douglas_fir"
      [] species_raw = "Ponderosa pine" -> "ponderosa_pine"
      [] species_raw = "Western white pine" -> "white_pine"
      [] species_raw = "Lodgepole pine" -> "lodgepole_pine"
      [] species_raw = "Engelmann spruce" -> "engelmann_spruce"
      [] species_raw = "Western hemlock" -> "western_hemlock"
      [] species_raw = "Cedars" -> "cedar"
      [] species_raw = "Larch" -> "western_larch"
      [] species_raw = "True firs" -> "true_fir"
      [] species_raw = "All species" -> "all_species"
      [] species_raw = "Western redcedar" -> "western_redcedar"
      [] species_raw = "Sitka spruce" -> "sitka_spruce"
      [] species_raw = "Red alder" -> "red_alder"
      [] species_raw = "Other hardwoods" -> "hardwood_other"
      [] species_raw = "Other softwoods" -> "softwood_other"
      [] OTHER -> NA

MBF_TO_TONS == Rat(40, 10)

RECURSIVE ReplaceFrom(_, _, _, _)
ReplaceFrom(s, old, new, i) ==
    IF i > Len(s) THEN ""
    ELSE (IF CharAt(s, i) = old THEN new ELSE CharAt(s, i)) \o ReplaceFrom(s, old, new, i + 1)

\* s.replace(old, new) for one-character old
Replace(s, old, new) == ReplaceFrom(s, old, new, 1)

usfs_notes(table) ==
    "USFS PNW National Forest stumpage. " \o table \o ". Administered pricing, not market."

\* the row transform_combined appends for one row with a price
transform_combined_row(row) ==
    LET state == IF SUBREGION_TO_STATE(row.subregion) # NA
                 THEN SUBREGION_TO_STATE(row.subregion)
                 ELSE IF SUBREGION_TO_STATE(row.region) # NA
                 THEN SUBREGION_TO_STATE(row.region)
                 ELSE Replace(row.region, "_", "-")
    IN  UnifiedRow(state, row.year, NaN, "annual",
                   IF row.subregion # row.region THEN row.subregion ELSE "Statewide",
                   NA, "all_species", "sawtimber", row.price_per_mbf, NaN, NaN, "$/MBF",
                   round2(RatDiv(row.price_per_mbf, MBF_TO_TONS)), MBF_TO_TONS, NaN,
                   usfs_notes(row.table))

transform_combined(df) ==
    LET priced == SelectSeq(df, LAMBDA row : row.price_per_mbf # NaN)
    IN  [i \in 1..Len(priced) |-> transform_combined_row(priced[i])]

\* the row transform_species appends for one row with a price
transform_species_row(row) ==
    LET species == IF SPECIES_MAP(row.species) # NA THEN SPECIES_MAP(row.species)
                   ELSE Replace(Lower(row.species), " ", "_")
        state == IF SUBREGION_TO_STATE(row.region) # NA THEN SUBREGION_TO_STATE(row.region)
                 ELSE IF REGION_TO_STATES(row.region) # NA THEN REGION_TO_STATES(row.region)
                 ELSE Replace(row.region, "_", "-")
    IN  UnifiedRow(state, row.year, NaN, "annual", Replace(row.region, "_", " "), NA,
                   species, "sawtimber", row.price_per_mbf, NaN, NaN, "$/MBF",
                   round2(RatDiv(row.price_per_mbf, MBF_TO_TONS)), MBF_TO_TONS, NaN,
                   usfs_notes(row.table))

transform_species(df) ==
    LET priced == SelectSeq(df, LAMBDA row : row.price_per_mbf # NaN)
    IN  [i \in 1..Len(priced) |-> transform_species_row(priced[i])]

usfs_dup_key(r) == <<r.source, r.year, r.species, r.region>>

\* df.drop_duplicates(subset=["source", "year", "species", "region"], keep="last")
drop_duplicates_keep_last(df) ==
    LET kept == SelectSeq([i \in 1..Len(df) |-> i],
                          LAMBDA i : \A j \in (i + 1)..Len(df) :
                                         usfs_dup_key(df[j]) # usfs_dup_key(df[i]))
    IN  [k \in 1..Len(kept) |-> df[kept[k]]]

\* the batch main() of integrate_usfs_pnw.py builds from its two input files
usfs_pnw_unified(combined_df, species_df) ==
    drop_duplicates_keep_last(transform_combined(combined_df)
                              \o transform_species(species_df))

is_usfs(r) == r.notes # NA /\ Contains(r.notes, "USFS PNW")

\* existing_df["notes"].str raises AttributeError when the column holds no text
\* at all: read_csv gives an all-empty column of a file with rows the dtype float64
notes_str_raises(existing_df) ==
    existing_df # << >> /\ \A r \in Range(existing_df) : r.notes = NA

\* an integration that appends the batch to all it finds
integrate_usfs_append_only(existing_df, batch) == sort_values(existing_df \o batch)

\* main() of integrate_usfs_pnw.py from the existing frame to the frame it saves
integrate_usfs(existing_df, batch) ==
    sort_values(SelectSeq(existing_df, LAMBDA r : ~is_usfs(r)) \o batch)

UsfsCombinedRows ==
    <<[year |-> 2020, region |-> "Washington_Oregon", subregion |-> "Washington",
       price_per_mbf |-> Money(200, 0), table |-> "Table 91"],
      [year |-> 2020, region |-> "California", subregion |-> "California",
       price_per_mbf |-> Money(200, 0), table |-> "Table 91"],
      [year |-> 2020, region |-> "Pacific", subregion |-> "California",
       price_per_mbf |-> NaN, table |-> "Table 91"]>>

UsfsSpeciesRows ==
    <<[year |-> 2020, region |-> "California", species |-> "Ponderosa pine",
       price_per_mbf |-> Money(300, 0), table |-> "Table 95"],
      [year |-> 2020, region |-> "Pacific_Southwest_CA", species |-> "Red alder",
       price_per_mbf |-> Money(300, 0), table |-> "Table 95"]>>

\* a row of the combined file and a row of the species file that give records
\* with the same source, year, species and region
UsfsCollidingRows ==
    <<[year |-> 2020, region |-> "Pacific", subregion |-> "California",
       price_per_mbf |-> Money(250, 0), table |-> "Table 91"],
      [year |-> 2020, region |-> "California", species |-> "All species",
       price_per_mbf |-> Money(350, 0), table |-> "Table 95"]>>

\* the two input files: one row in one of them, or every row in both
UsfsInputs ==
    {<<(<<row>>), << >>>> : row \in Range(UsfsCombinedRows)}
        \cup {<<(<< >>), <<row>>>> : row \in Range(UsfsSpeciesRows)}
        \cup {<<UsfsCombinedRows \o <<UsfsCollidingRows[1]>>,
                 UsfsSpeciesRows \o <<UsfsCollidingRows[2]>>>>}

UsfsBatches == {usfs_pnw_unified(in[1], in[2]) : in \in UsfsInputs}

\* python integrate_usfs_pnw.py; it raises before writing when there is no
\* unified file, when no row of the batch has a price (the batch frame has no
\* columns) or when the existing notes column holds no text
IntegrateUSFS ==
    \E batch \in UsfsBatches :
        /\ unified' = IF \/ ~unified.exists
                         \/ batch = << >>
                         \/ notes_str_raises(read_csv(unified))
                      THEN unified
                      ELSE File(integrate_usfs(read_csv(unified), batch))
        /\ stats' = << >>
        /\ mainError' = NA
        /\ withData' = {NA}
        /\ UNCHANGED <<normVars, convVars, nhVars, texVars, mktVars, t5Vars, cpVars, pgVars>>

Next == Unify \/ IntegrateTN \/ IntegrateUSFS

Spec == Init /\ [][Next]_vars

-----------------------------------------------------------------------------
(* The integration runs on the unified file a unification run has written *)

\* source files of the unification run before the integrations: two sources
\* with data, one source whose records carry notes, one whose records carry none
IntegFiles ==
    LET mi == CHOOSE r \in MichiganRows : r.species_group = "Pine"
        mn == CHOOSE r \in MinnesotaRows : r.unit = "Cords"
        wi == CHOOSE r \in WisconsinRows : TRUE
    IN  {<<File(<<mi>>), File(<<mn>>), NoFile>>,
         <<NoFile, NoFile, File(<<wi>>)>>,
         <<NoFile, File(<<mn>>), NoFile>>}

\* the state a completed unification run leaves
IntegInit ==
    /\ \E files \in IntegFiles :
           /\ unified = to_csv(NoFile, main_combined(files))
           /\ stats = main_stats(files)
           /\ withData = {Loaders[i] : i \in {j \in 1..Len(Loaders) : has_rows(files[j])}}
    /\ mainError = NA
    /\ normFn = "none"
    /\ normIn = NA
    /\ normOut = NA
    /\ normFirst = NA
    /\ normCalls = 0
    /\ convRec = NaN
    /\ convFirst = NaN
    /\ convCalls = 0
    /\ nhPhase = "idle"
    /\ nhTable = << >>
    /\ nhRegion = NA
    /\ nhHeader = 0
    /\ nhPos = 0
    /\ nhRecords = << >>
    /\ nhRows = << >>
    /\ texIn = << >>
    /\ texOut = NaN
    /\ texFirst = NaN
    /\ texCalls = 0
    /\ mktMarket = NA
    /\ mktState = NA
    /\ mktStates = <<NA>>
    /\ mktMarkets = <<NA>>
    /\ t5Lines = << >>
    /\ t5Pos = 0
    /\ t5Flags = NoSection
    /\ t5Records = << >>
    /\ t5Rows = << >>
    /\ cpFile = NA
    /\ cpPages = << >>
    /\ cpParse = NotParsed
    /\ cpDownload = NotParsed
    /\ pgKind = NA
    /\ pgDoc = << >>
    /\ pgYear = 0
    /\ pgPage = 0
    /\ pgContext = NoContext
    /\ pgRecords = << >>
    /\ pgOrigin = << >>

IntegNext == IntegrateTN \/ IntegrateUSFS

SpecInteg == IntegInit /\ [][IntegNext]_vars

-----------------------------------------------------------------------------
(* NH table parser: clean_price_value of scripts/parse_nh_stumpage.py *)

\* each lower-case letter with its upper-case letter
UpperTable ==
    [c \in {CharAt(LowerChars, i) : i \in 1..26} |->
        CharAt(UpperChars, CHOOSE i \in 1..26 : CharAt(LowerChars, i) = c)]

UpperChar(c) == IF c \in DOMAIN UpperTable THEN UpperTable[c] ELSE c

RECURSIVE UpperFrom(_, _)
UpperFrom(s, i) ==
    IF i > Len(s) THEN "" ELSE UpperChar(CharAt(s, i)) \o UpperFrom(s, i + 1)

\* str.upper()
Upper(s) == UpperFrom(s, 1)

RECURSIVE RemoveFrom(_, _, _)
RemoveFrom(s, old, i) ==
    IF i > Len(s) THEN ""
    ELSE (IF CharAt(s, i) = old THEN "" ELSE CharAt(s, i)) \o RemoveFrom(s, old, i + 1)

\* s.replace(old, '') for one-character old
Remove(s, old) == RemoveFrom(s, old, 1)

DigitChars == "0123456789"

RECURSIVE DigitsValue(_, _)
\* the number a text of decimal digits writes; 0 for the empty text
DigitsValue(digits, acc) ==
    IF digits = "" THEN acc
    ELSE DigitsValue(SubSeq(digits, 2, Len(digits)),
                     acc * 10 + (CHOOSE d \in 0..9 : CharAt(DigitChars, d + 1) = CharAt(digits, 1)))

RECURSIVE PowerOfTen(_)
PowerOfTen(k) == IF k = 0 THEN 1 ELSE 10 * PowerOfTen(k - 1)

\* the floats that are not decimals
float_nan == <<0, 0>>
float_inf == <<1, 0>>
float_neg_inf == <<-1, 0>>

\* the text holds decimal digits only (or nothing)
AllDigits(x) == \A i \in 1..Len(x) : \E d \in 1..10 : CharAt(DigitChars, d) = CharAt(x, i)

\* position of the first "." of the text, 0 when it has none
first_dot(body) ==
    IF \E i \in 1..Len(body) : CharAt(body, i) = "."
    THEN CHOOSE i \in 1..Len(body) :
             CharAt(body, i) = "." /\ \A j \in 1..(i - 1) : CharAt(body, j) # "."
    ELSE 0

\* the decimal that whole.frac writes
decimal_value(sign, whole, frac) ==
    Rat(sign * (DigitsValue(whole, 0) * PowerOfTen(Len(frac)) + DigitsValue(frac, 0)),
        PowerOfTen(Len(frac)))

\* digits before and behind the point; one of the two may be missing
float_parts(sign, whole, frac) ==
    IF AllDigits(whole) /\ AllDigits(frac) /\ whole \o frac # ""
    THEN decimal_value(sign, whole, frac)
    ELSE NaN

float_at(sign, body, dot) ==
    IF dot = 0
    THEN (IF body # "" /\ AllDigits(body) THEN Rat(sign * DigitsValue(body, 0), 1) ELSE NaN)
    ELSE float_parts(sign, SubSeq(body, 1, dot - 1), SubSeq(body, dot + 1, Len(body)))

\* the spellings of nan and infinity, in any case, else a decimal numeral
float_word(sign, body, lower) ==
    IF lower = "nan" THEN float_nan
    ELSE IF lower \in {"inf", "infinity"}
    THEN (IF sign = 1 THEN float_inf ELSE float_neg_inf)
    ELSE float_at(sign, body, first_dot(body))

float_unsigned(sign, body) == float_word(sign, body, Lower(body))

float_stripped(t) ==
    IF t # "" /\ CharAt(t, 1) \in {"+", "-"}
    THEN float_unsigned(IF CharAt(t, 1) = "-" THEN -1 ELSE 1, SubSeq(t, 2, Len(t)))
    ELSE float_unsigned(1, t)

\* float(text) on texts without exponent and without underscores; NaN (no
\* value) where float() raises ValueError
float(text) == float_stripped(Strip(text))

clean_price_value(value) ==
    IF value = "" \/ Strip(value) = "" THEN NaN
    ELSE float(Strip(Remove(Remove(value, "$"), ",")))

-----------------------------------------------------------------------------
(* NH table parser: parse_stumpage_pdf on one page with one table *)

\* how many rows the table of a page has at most
MaxTableRows == 4

\* a cell is a text, or NA for None; None and '' are falsy
Truthy(cell) == cell # NA /\ cell # ""

HeaderKeywords == {"SPECIES", "PRODUCT", "LOW", "HIGH"}

RejectKeywords ==
    {"SPECIES", "PRODUCT", "AVERAGE", "RANGE", "NORTHERN", "CENTRAL", "SOUTHERN", "TYPE"}

\* the test of the header search on one row
is_header_row(row) ==
    /\ row # << >>
    /\ \E i \in 1..Len(row) : Truthy(row[i]) /\ ContainsAny(Upper(row[i]), HeaderKeywords)

RECURSIVE JoinCells(_)
\* the texts of a row's cells, each followed by a blank
JoinCells(row) ==
    IF row = << >> THEN ""
    ELSE (IF Truthy(Head(row)) THEN Head(row) \o " " ELSE "") \o JoinCells(Tail(row))

\* current_region as the three tests on the page text leave it
region_of_upper(text_upper) ==
    IF Contains(text_upper, "SOUTHERN") THEN "Southern"
    ELSE IF Contains(text_upper, "CENTRAL") THEN "Central"
    ELSE IF Contains(text_upper, "NORTHERN") THEN "Northern"
    ELSE NA

\* str(row[0]).strip() if row[0] else ''
row_species(row) == IF Truthy(row[1]) THEN Strip(row[1]) ELSE ""

\* str(cell).strip() if cell else ''
cell_text(cell) == IF Truthy(cell) THEN Strip(cell) ELSE ""

\* clean_price_value(str(cell)) if cell else None
cell_price(cell) == IF Truthy(cell) THEN clean_price_value(cell) ELSE NaN

\* the four fields read from the cells at the positions the arity gives
fields_of(product_cell, low_cell, high_cell, unit_cell) ==
    [product_type |-> cell_text(product_cell), price_low |-> cell_price(low_cell),
     price_high |-> cell_price(high_cell), unit |-> cell_text(unit_cell)]

\* row_fields that reads a 5-cell row as species, low, high, product, unit
row_fields_product_late(row) ==
    IF Len(row) >= 5 THEN fields_of(row[4], row[2], row[3], row[5])
    ELSE IF Len(row) >= 4 THEN fields_of("", row[2], row[3], row[4])
    ELSE fields_of("", row[2], row[3], "")

\* the fields the arity of the row gives: product_type and unit stay '' where
\* the row has no cell for them
row_fields(row) ==
    IF Len(row) >= 5 THEN fields_of(row[2], row[3], row[4], row[5])
    ELSE IF Len(row) >= 4 THEN fields_of("", row[2], row[3], row[4])
    ELSE fields_of("", row[2], row[3], "")

\* the  continue  statements of the data row loop, up to the reject list
row_filtered(row) ==
    \/ row = << >>
    \/ Len(row) < 3
    \/ \A i \in 1..Len(row) : ~Truthy(row[i]) \/ Strip(row[i]) = ""
    \/ ContainsAny(Upper(row_species(row)), RejectKeywords)
    \/ row_species(row) = ""

\* price_low is None and price_high is None
no_price(fields) == fields.price_low = NaN /\ fields.price_high = NaN

\* the row is passed over: filtered, or without a price
row_skipped(row) == row_filtered(row) \/ no_price(row_fields(row))

\* the dictionary of lines 204-214 without the period fields
record_of(species, fields, current_region) ==
    [region |-> IF current_region # NA THEN current_region ELSE "Unknown",
     species |-> species,
     product_type |-> fields.product_type,
     price_low |-> fields.price_low,
     price_high |-> fields.price_high,
     unit |-> fields.unit]

\* the record appended for a row that is not passed over
row_record(row, current_region) == record_of(row_species(row), row_fields(row), current_region)

\* rows as pdfplumber hands them over: header, region markers, data rows of
\* each arity, rows without a usable price
NhRows ==
    {<<"Species", "Product", "Low", "High", "Unit">>,
     <<"NORTHERN", NA, NA, NA, NA>>,
     <<"SOUTHERN", NA, NA, NA, NA>>,
     <<"White Oak", "Sawlogs", "250.00", "350.00", "MBF">>,
     <<"White Pine", "$1,250.50", "", "MBF">>,
     <<"Red Maple", " 35 ", "40">>,
     <<"Beech", "10">>,
     <<"Hemlock", "Pulp", "N/A", "-", "Ton">>,
     <<"Ash", "Pulp", "nan", NA, "Cord">>}

\* what the loops find out about a row by itself, worked out once for each row
row_facts(row, skipped) ==
    [is_header |-> is_header_row(row),
     text |-> JoinCells(row),
     text_upper |-> Upper(JoinCells(row)),
     skipped |-> skipped,
     record |-> IF skipped THEN NaN ELSE row_record(row, NA)]

RowFacts == [row \in NhRows |-> row_facts(row, row_skipped(row))]

\* the indices of the rows that pass the test of the header search
HeaderRows(table) == {i \in 1..Len(table) : RowFacts[table[i]].is_header}

\* the least of the indices, or the default when there is none
first_or(hits, default) ==
    IF hits = {} THEN default ELSE CHOOSE i \in hits : \A j \in hits : i <= j

\* header_row_idx that takes the first row for the header when no row is one
header_row_idx_default_first(table) == first_or(HeaderRows(table), 1)

\* header_row_idx counted from 1; 0 when the search ends without a break
header_row_idx(table) == first_or(HeaderRows(table), 0)

RECURSIVE page_text(_)
\* page.extract_text(): the words on the page, which are the words of its table
page_text(table) ==
    IF table = << >> THEN "" ELSE RowFacts[Head(table)].text \o page_text(Tail(table))

RECURSIVE page_text_upper(_)
\* text.upper(): the upper-cased words of the rows, one row after the other
page_text_upper(table) ==
    IF table = << >> THEN ""
    ELSE RowFacts[Head(table)].text_upper \o page_text_upper(Tail(table))

\* the record appended for a row under the current region
append_record(row, current_region) ==
    [RowFacts[row].record EXCEPT
        !.region = IF current_region # NA THEN current_region ELSE "Unknown"]

NhTables == UNION {[1..n -> NhRows] : n \in 1..MaxTableRows}

\* a page with one table has been opened; nothing else is going on
NhInit ==
    /\ nhPhase = "page"
    /\ nhTable \in NhTables
    /\ nhRegion = NA
    /\ nhHeader = 0
    /\ nhPos = 0
    /\ nhRecords = << >>
    /\ nhRows = << >>
    /\ stats = << >>
    /\ mainError = NA
    /\ withData = {NA}
    /\ texIn = << >>
    /\ texOut = NaN
    /\ texFirst = NaN
    /\ texCalls = 0
    /\ mktMarket = NA
    /\ mktState = NA
    /\ mktStates = <<NA>>
    /\ mktMarkets = <<NA>>
    /\ t5Lines = << >>
    /\ t5Pos = 0
    /\ t5Flags = NoSection
    /\ t5Records = << >>
    /\ t5Rows = << >>
    /\ cpFile = NA
    /\ cpPages = << >>
    /\ cpParse = NotParsed
    /\ cpDownload = NotParsed
    /\ pgKind = NA
    /\ pgDoc = << >>
    /\ pgYear = 0
    /\ pgPage = 0
    /\ pgContext = NoContext
    /\ pgRecords = << >>
    /\ pgOrigin = << >>
    /\ normFn = "none"
    /\ normIn = NA
    /\ normOut = NA
    /\ normFirst = NA
    /\ normCalls = 0
    /\ convRec = NaN
    /\ convFirst = NaN
    /\ convCalls = 0
    /\ unified = NoFile

\* the page text is read and current_region set from it; a page without text
\* is passed over
IdentifyRegion ==
    /\ nhPhase = "page"
    /\ nhPhase' = IF page_text(nhTable) = "" THEN "done" ELSE "header"
    /\ nhRegion' = region_of_upper(page_text_upper(nhTable))
    /\ UNCHANGED <<nhTable, nhHeader, nhPos, nhRecords, nhRows>>
    /\ UNCHANGED <<normVars, convVars, fileVars, runVars, texVars, mktVars, t5Vars, cpVars, pgVars>>

\* the header search; a table of fewer than two rows, or without a header row,
\* is passed over
FindHeader ==
    /\ nhPhase = "header"
    /\ LET idx == IF Len(nhTable) < 2 THEN 0 ELSE header_row_idx(nhTable)
       IN  /\ nhHeader' = idx
           /\ nhPos' = idx
           /\ nhPhase' = IF idx = 0 \/ idx = Len(nhTable) THEN "done" ELSE "rows"
    /\ UNCHANGED <<nhTable, nhRegion, nhRecords, nhRows>>
    /\ UNCHANGED <<normVars, convVars, fileVars, runVars, texVars, mktVars, t5Vars, cpVars, pgVars>>

\* one pass of the data row loop
ProcessRow ==
    /\ nhPhase = "rows"
    /\ LET row == nhTable[nhPos + 1]
       IN  /\ nhPos' = nhPos + 1
           /\ nhRecords' = IF RowFacts[row].skipped THEN nhRecords
                           ELSE Append(nhRecords, append_record(row, nhRegion))
           /\ nhRows' = IF RowFacts[row].skipped THEN nhRows ELSE Append(nhRows, nhPos + 1)
           /\ nhPhase' = IF nhPos + 1 = Len(nhTable) THEN "done" ELSE "rows"
    /\ UNCHANGED <<nhTable, nhRegion, nhHeader>>
    /\ UNCHANGED <<normVars, convVars, fileVars, runVars, texVars, mktVars, t5Vars, cpVars, pgVars>>

NhNext == IdentifyRegion \/ FindHeader \/ ProcessRow

SpecNH == NhInit /\ [][NhNext]_vars

-----------------------------------------------------------------------------
(* NH parser: parse_stumpage_pdf of scripts/parse_nh_stumpage.py and its     *)
(* copy in scripts/download_nh_stumpage.py, on a PDF of several pages        *)

\* most table rows of a PDF, over all its pages
MaxDocRows == 3

\* re.match(r'avg-stump-val-(\d{2})-(\d{2})-(\d{2})-(\d{2})\.pdf', filename)
period_pattern_matches(filename) ==
    /\ Len(filename) >= 29
    /\ SubSeq(filename, 1, 14) = "avg-stump-val-"
    /\ \A i \in {15, 16, 18, 19, 21, 22, 24, 25} : IsDigits(CharAt(filename, i))
    /\ \A i \in {17, 20, 23} : CharAt(filename, i) = "-"
    /\ SubSeq(filename, 26, 29) = ".pdf"

\* parse_period_from_filename; matched is FALSE where it returns None
parse_period_from_filename(filename) ==
    IF period_pattern_matches(filename)
    THEN [matched |-> TRUE,
          start_month |-> SubSeq(filename, 15, 16),
          start_year |-> "20" \o SubSeq(filename, 18, 19),
          end_month |-> SubSeq(filename, 21, 22),
          end_year |-> "20" \o SubSeq(filename, 24, 25)]
    ELSE [matched |-> FALSE, start_month |-> NA, start_year |-> NA, end_month |-> NA,
          end_year |-> NA]

\* the period_info parse_nh_stumpage.py goes on with when the name does not match
DefaultPeriod ==
    [matched |-> FALSE, start_month |-> "00", start_year |-> "2024", end_month |-> "00",
     end_year |-> "2024"]

determine_period(start_month) ==
    IF DigitsValue(start_month, 0) >= 4 /\ DigitsValue(start_month, 0) <= 9
    THEN "Spring" ELSE "Fall"

\* the record of lines 204-214 with its period fields
with_period(record, period_info) ==
    [year |-> period_info.start_year,
     period |-> determine_period(period_info.start_month),
     period_dates |-> period_info.start_month \o "/" \o period_info.start_year \o "-"
                          \o period_info.end_month \o "/" \o period_info.end_year,
     region |-> record.region, species |-> record.species,
     product_type |-> record.product_type, price_low |-> record.price_low,
     price_high |-> record.price_high, unit |-> record.unit]

\* the header search of download_nh_stumpage.py (lines 187-191)
download_is_header_row(row) ==
    /\ row # << >>
    /\ \E i \in 1..Len(row) :
           Truthy(row[i]) /\ ContainsAny(Upper(row[i]), {"SPECIES", "PRODUCT"})

\* the  continue  statements of the data row loop of download_nh_stumpage.py
download_row_filtered(row) ==
    \/ row = << >>
    \/ Len(row) < 3
    \/ \A i \in 1..Len(row) : ~Truthy(row[i]) \/ Strip(row[i]) = ""
    \/ ContainsAny(Upper(row_species(row)),
                   {"SPECIES", "PRODUCT", "AVERAGE", "RANGE", "NORTHERN", "CENTRAL", "SOUTHERN"})
    \/ row_species(row) = ""

\* current_region as the if / elif / elif of download_nh_stumpage.py leaves it
download_region_of_upper(text_upper) ==
    IF Contains(text_upper, "NORTHERN") THEN "Northern"
    ELSE IF Contains(text_upper, "CENTRAL") THEN "Central"
    ELSE IF Contains(text_upper, "SOUTHERN") THEN "Southern"
    ELSE NA

\* rows of the tables: a header with Species, a header with Low and High
\* only, region markers, data rows, a row whose species holds TYPE
DocRows ==
    {<<"Species", "Low", "High">>,
     <<"Grade", "Low", "High">>,
     <<"NORTHERN", NA, NA>>,
     <<"SOUTHERN", NA, NA>>,
     <<"White Oak", "250.00", "350.00">>,
     <<"Pallet Type", "20", "30">>}

\* what each copy finds out about a row by itself
doc_row_facts(row, skipped, download_skipped) ==
    [text |-> JoinCells(row),
     text_upper |-> Upper(JoinCells(row)),
     is_header |-> [parse |-> is_header_row(row), download |-> download_is_header_row(row)],
     skipped |-> [parse |-> skipped, download |-> download_skipped],
     record |-> IF skipped /\ download_skipped THEN NaN ELSE row_record(row, NA)]

DocRowFacts ==
    [row \in DocRows |->
        doc_row_facts(row, row_skipped(row),
                      download_row_filtered(row) \/ no_price(row_fields(row)))]

RECURSIVE doc_page_text_upper(_)
\* text.upper() of a page: the upper-cased words of its table
doc_page_text_upper(table) ==
    IF table = << >> THEN ""
    ELSE DocRowFacts[Head(table)].text_upper \o doc_page_text_upper(Tail(table))

\* current_region after the tests on the page text, starting from the value
\* the page loop gives it first
page_region(text_upper, copy, start) ==
    IF copy = "parse"
    THEN (IF region_of_upper(text_upper) # NA THEN region_of_upper(text_upper) ELSE start)
    ELSE (IF download_region_of_upper(text_upper) # NA
          THEN download_region_of_upper(text_upper) ELSE start)

\* the header row of the table for the copy, 0 when the table is passed over
page_header(table, copy) ==
    IF Len(table) < 2 THEN 0
    ELSE first_or({i \in 1..Len(table) : DocRowFacts[table[i]].is_header[copy]}, 0)

\* the records of the rows behind the header that the copy does not pass over
rows_records(table, copy, header, region) ==
    IF header = 0 THEN << >>
    ELSE LET kept == SelectSeq(SubSeq(table, header + 1, Len(table)),
                               LAMBDA row : ~DocRowFacts[row].skipped[copy])
         IN  [i \in 1..Len(kept) |->
                 [DocRowFacts[kept[i]].record EXCEPT
                     !.region = IF region # NA THEN region ELSE "Unknown"]]

\* the records one pass of the page loop appends; a page without text has no
\* table rows with text either
page_records(table, copy, start) ==
    rows_records(table, copy, page_header(table, copy),
                 page_region(doc_page_text_upper(table), copy, start))

\* page_start that resets nothing
page_start_carried(previous) == previous

\* current_region, current_species, current_product at the start of a page,
\* whatever the page before left
page_start(previous) == NoContext

RECURSIVE pages_records(_, _, _)
\* the records of all pages, previous being the context the page before left
pages_records(pages, copy, previous) ==
    IF pages = << >> THEN << >>
    ELSE page_records(Head(pages), copy, page_start(previous).region)
             \o pages_records(Tail(pages), copy,
                              [previous EXCEPT !.region =
                                  page_region(doc_page_text_upper(Head(pages)), copy,
                                              page_start(previous).region)])

\* the records with the period fields of the file
records_with_period(records, period_info) ==
    [i \in 1..Len(records) |-> with_period(records[i], period_info)]

\* parse_stumpage_pdf of parse_nh_stumpage.py
parse_stumpage_pdf(filename, pages) ==
    records_with_period(pages_records(pages, "parse", NoContext),
                        IF period_pattern_matches(filename)
                        THEN parse_period_from_filename(filename) ELSE DefaultPeriod)

\* parse_stumpage_pdf of download_nh_stumpage.py
download_parse_stumpage_pdf(filename, pages) ==
    IF ~period_pattern_matches(filename) THEN << >>
    ELSE records_with_period(pages_records(pages, "download", NoContext),
                             parse_period_from_filename(filename))

\* the names of the PDF files: two that match the period pattern, one that does not
DocFiles == {"avg-stump-val-10-24-03-25.pdf", "avg-stump-val-04-23-09-23.pdf", "nh-stumpage.pdf"}

\* the tables of n rows
TablesOfLen(n) == [1..n -> DocRows]

\* PDFs of one page, and of two pages, with at most MaxDocRows rows in all
DocPages ==
    UNION {{<<table>> : table \in TablesOfLen(n)} : n \in 1..MaxDocRows}
        \cup UNION {{<<first, second>> : first \in TablesOfLen(c[1]),
                                         second \in TablesOfLen(c[2])} :
                    c \in {d \in (1..MaxDocRows) \X (1..MaxDocRows) : d[1] + d[2] <= MaxDocRows}}

\* a PDF file is at hand; neither copy has parsed it
CopiesInit ==
    /\ cpFile \in DocFiles
    /\ cpPages \in DocPages
    /\ cpParse = NotParsed
    /\ cpDownload = NotParsed
    /\ pgKind = NA
    /\ pgDoc = << >>
    /\ pgYear = 0
    /\ pgPage = 0
    /\ pgContext = NoContext
    /\ pgRecords = << >>
    /\ pgOrigin = << >>
    /\ unified = NoFile
    /\ normFn = "none"
    /\ normIn = NA
    /\ normOut = NA
    /\ normFirst = NA
    /\ normCalls = 0
    /\ convRec = NaN
    /\ convFirst = NaN
    /\ convCalls = 0
    /\ nhPhase = "idle"
    /\ nhTable = << >>
    /\ nhRegion = NA
    /\ nhHeader = 0
    /\ nhPos = 0
    /\ nhRecords = << >>
    /\ nhRows = << >>
    /\ stats = << >>
    /\ mainError = NA
    /\ withData = {NA}
    /\ texIn = << >>
    /\ texOut = NaN
    /\ texFirst = NaN
    /\ texCalls = 0
    /\ mktMarket = NA
    /\ mktState = NA
    /\ mktStates = <<NA>>
    /\ mktMarkets = <<NA>>
    /\ t5Lines = << >>
    /\ t5Pos = 0
    /\ t5Flags = NoSection
    /\ t5Records = << >>
    /\ t5Rows = << >>

\* python parse_nh_stumpage.py parses the file
ParseCopy ==
    /\ cpFile # NA
    /\ ~cpParse.called
    /\ cpParse' = [called |-> TRUE, records |-> parse_stumpage_pdf(cpFile, cpPages)]
    /\ UNCHANGED <<cpFile, cpPages, cpDownload>>
    /\ UNCHANGED <<normVars, convVars, fileVars, nhVars, runVars, texVars, mktVars, t5Vars, pgVars>>

\* python download_nh_stumpage.py parses the file
DownloadCopy ==
    /\ cpFile # NA
    /\ ~cpDownload.called
    /\ cpDownload' = [called |-> TRUE, records |-> download_parse_stumpage_pdf(cpFile, cpPages)]
    /\ UNCHANGED <<cpFile, cpPages, cpParse>>
    /\ UNCHANGED <<normVars, convVars, fileVars, nhVars, runVars, texVars, mktVars, t5Vars, pgVars>>

CopiesNext == ParseCopy \/ DownloadCopy

SpecCopies == CopiesInit /\ [][CopiesNext]_vars

-----------------------------------------------------------------------------
(* Texas parser: the deduplication in main() of scripts/parse_texas_stumpage.py *)

\* records in all_records of one run
MaxRecords == 3

\* df[price_cols].notna().sum(axis=1)
price_count(r) ==
    (IF r.price_avg # NaN THEN 1 ELSE 0)
        + (IF r.price_unweighted_avg # NaN THEN 1 ELSE 0)
        + (IF r.price_weighted_avg # NaN THEN 1 ELSE 0)

\* subset=['year', 'region', 'species', 'product_type']
texas_key(r) == <<r.year, r.region, r.species, r.product_type>>

\* the order that puts the smaller price_count first among equal keys
texas_less_count_ascending(a, b, by) ==
    IF a.year # b.year THEN a.year < b.year
    ELSE IF by = "output"
    THEN IF a.species # b.species THEN StrLess(a.species, b.species)
         ELSE IF a.product_type # b.product_type THEN StrLess(a.product_type, b.product_type)
         ELSE IF a.region # b.region THEN StrLess(a.region, b.region)
         ELSE FALSE
    ELSE IF a.region # b.region THEN StrLess(a.region, b.region)
    ELSE IF a.species # b.species THEN StrLess(a.species, b.species)
    ELSE IF a.product_type # b.product_type THEN StrLess(a.product_type, b.product_type)
    ELSE price_count(a) < price_count(b)

\* a sorts before b: by = "output" is ['year', 'species', 'product_type', 'region'],
\* by = "dedup" is ['year', 'region', 'species', 'product_type', 'price_count']
\* with ascending=[True, True, True, True, False]
texas_less(a, b, by) ==
    IF a.year # b.year THEN a.year < b.year
    ELSE IF by = "output"
    THEN IF a.species # b.species THEN StrLess(a.species, b.species)
         ELSE IF a.product_type # b.product_type THEN StrLess(a.product_type, b.product_type)
         ELSE IF a.region # b.region THEN StrLess(a.region, b.region)
         ELSE FALSE
    ELSE IF a.region # b.region THEN StrLess(a.region, b.region)
    ELSE IF a.species # b.species THEN StrLess(a.species, b.species)
    ELSE IF a.product_type # b.product_type THEN StrLess(a.product_type, b.product_type)
    ELSE price_count(a) > price_count(b)

RECURSIVE texas_insert(_, _, _)
\* x put behind every record of the sorted frame that does not sort after it
texas_insert(x, sorted, by) ==
    IF sorted = << >> THEN <<x>>
    ELSE IF texas_less(x, Head(sorted), by) THEN <<x>> \o sorted
    ELSE <<Head(sorted)>> \o texas_insert(x, Tail(sorted), by)

RECURSIVE texas_sort_values(_, _)
\* df.sort_values(columns): records with equal sort columns keep their order
texas_sort_values(df, by) ==
    IF df = << >> THEN << >>
    ELSE texas_insert(df[Len(df)], texas_sort_values(SubSeq(df, 1, Len(df) - 1), by), by)

\* df.drop_duplicates(subset=[...], keep='first')
drop_duplicates_keep_first(df) ==
    SelectSeq([i \in 1..Len(df) |->
                  [rec |-> df[i],
                   first |-> \A j \in 1..(i - 1) : texas_key(df[j]) # texas_key(df[i])]],
              LAMBDA e : e.first)

\* lines 374-382: sort, count the prices, sort with the larger count first, keep
\* the first record of each key, sort again
texas_dedup(all_records) ==
    LET sorted == texas_sort_values(all_records, "output")
        ranked == texas_sort_values(sorted, "dedup")
        kept   == drop_duplicates_keep_first(ranked)
    IN  texas_sort_values([i \in 1..Len(kept) |-> kept[i].rec], "output")

TexasRecord(region, avg, unweighted, weighted) ==
    [year |-> 2023, region |-> region, species |-> "Pine", product_type |-> "sawtimber",
     unit |-> "$/ton", price_avg |-> avg, price_unweighted_avg |-> unweighted,
     price_weighted_avg |-> weighted]

\* records of the reports: for one key a record with the average only, one with
\* all three prices, one with another average only and one with two prices; a
\* record of another key
TexasRecords ==
    {TexasRecord("Northeast", Money(30, 0), NaN, NaN),
     TexasRecord("Northeast", Money(30, 50), Money(29, 0), Money(31, 0)),
     TexasRecord("Northeast", Money(32, 0), NaN, NaN),
     TexasRecord("Northeast", NaN, Money(29, 0), Money(31, 0)),
     TexasRecord("Southeast", Money(28, 0), NaN, NaN)}

\* the same records in each other order
Reorderings(records) ==
    {[i \in 1..Len(records) |-> records[p[i]]] :
        p \in {q \in [1..Len(records) -> 1..Len(records)] :
                  \A i, j \in 1..Len(records) : i # j => q[i] # q[j]}} \ {records}

TexasInit ==
    /\ texIn \in UNION {[1..n -> TexasRecords] : n \in 1..MaxRecords}
    /\ texOut = NaN
    /\ texFirst = NaN
    /\ texCalls = 0
    /\ mktMarket = NA
    /\ mktState = NA
    /\ mktStates = <<NA>>
    /\ mktMarkets = <<NA>>
    /\ t5Lines = << >>
    /\ t5Pos = 0
    /\ t5Flags = NoSection
    /\ t5Records = << >>
    /\ t5Rows = << >>
    /\ cpFile = NA
    /\ cpPages = << >>
    /\ cpParse = NotParsed
    /\ cpDownload = NotParsed
    /\ pgKind = NA
    /\ pgDoc = << >>
    /\ pgYear = 0
    /\ pgPage = 0
    /\ pgContext = NoContext
    /\ pgRecords = << >>
    /\ pgOrigin = << >>
    /\ stats = << >>
    /\ mainError = NA
    /\ withData = {NA}
    /\ nhPhase = "idle"
    /\ nhTable = << >>
    /\ nhRegion = NA
    /\ nhHeader = 0
    /\ nhPos = 0
    /\ nhRecords = << >>
    /\ nhRows = << >>
    /\ normFn = "none"
    /\ normIn = NA
    /\ normOut = NA
    /\ normFirst = NA
    /\ normCalls = 0
    /\ convRec = NaN
    /\ convFirst = NaN
    /\ convCalls = 0
    /\ unified = NoFile

\* python parse_texas_stumpage.py: the frame of all_records is deduplicated and saved
TexasMain ==
    /\ texCalls < MaxCalls
    /\ texOut' = texas_dedup(texIn)
    /\ texFirst' = IF texCalls = 0 THEN texas_dedup(texIn) ELSE texFirst
    /\ texCalls' = texCalls + 1
    /\ UNCHANGED texIn
    /\ UNCHANGED <<normVars, convVars, fileVars, nhVars, runVars, mktVars, t5Vars, cpVars, pgVars>>

\* list(data_dir.glob(...)) hands the report files over in directory order: the
\* next run meets the same records in another order
TexasReorder ==
    /\ texCalls >= 1
    /\ texIn' \in Reorderings(texIn)
    /\ UNCHANGED <<texOut, texFirst, texCalls>>
    /\ UNCHANGED <<normVars, convVars, fileVars, nhVars, runVars, mktVars, t5Vars, cpVars, pgVars>>

TexasNext == TexasMain \/ TexasReorder

SpecTexas == TexasInit /\ [][TexasNext]_vars

-----------------------------------------------------------------------------
(* Texas parser: parse_5year_report of scripts/parse_texas_stumpage.py *)

\* most lines of a page
MaxLines == 3

\* the branch of the section tracking the line takes: 1 .. 5 in the order of
\* the if / elif chain, 0 when the line names no section
section_branch(line) ==
    IF Contains(line, "Large Pine Sawtimber") THEN 1
    ELSE IF Contains(line, "Small Pine Sawtimber") THEN 2
    ELSE IF Contains(line, "Hardwood Sawtimber") THEN 3
    ELSE IF Contains(line, "Pine Pulpwood") THEN 4
    ELSE IF Contains(line, "Hardwood Pulpwood") THEN 5
    ELSE 0

\* the assignments of the branch: the section's flag is set and the flag of
\* the section expected before it is cleared
track_section(flags, branch) ==
    IF branch = 1 THEN [flags EXCEPT !.in_large_pine = TRUE]
    ELSE IF branch = 2 THEN [flags EXCEPT !.in_large_pine = FALSE, !.in_small_pine = TRUE]
    ELSE IF branch = 3 THEN [flags EXCEPT !.in_small_pine = FALSE, !.in_hardwood_saw = TRUE]
    ELSE IF branch = 4 THEN [flags EXCEPT !.in_hardwood_saw = FALSE, !.in_pine_pulp = TRUE]
    ELSE [flags EXCEPT !.in_pine_pulp = FALSE, !.in_hardwood_pulp = TRUE]

IsDigit(c) == \E d \in 1..10 : CharAt(DigitChars, d) = c

RECURSIVE run_end(_, _, _)
\* the index behind the longest run of characters of the class that starts at i
run_end(line, i, class) ==
    IF i <= Len(line) /\ ( \/ (class = "space" /\ IsSpace(CharAt(line, i)))
                           \/ (class = "amount" /\ (IsDigit(CharAt(line, i)) \/ CharAt(line, i) = ",")))
    THEN run_end(line, i + 1, class)
    ELSE i

\* re.match(r'^(20\d{2})\s+\$', line)
year_price_match(line) ==
    /\ Len(line) >= 6
    /\ SubSeq(line, 1, 2) = "20"
    /\ IsDigit(CharAt(line, 3))
    /\ IsDigit(CharAt(line, 4))
    /\ run_end(line, 5, "space") > 5
    /\ run_end(line, 5, "space") <= Len(line)
    /\ CharAt(line, run_end(line, 5, "space")) = "$"

\* the match r'\$[\d,]+\.[\d]{2}' that starts at i and whose amount ends before j
price_at(line, i, j) ==
    IF /\ j > i + 1
       /\ j + 2 <= Len(line)
       /\ CharAt(line, j) = "."
       /\ IsDigit(CharAt(line, j + 1))
       /\ IsDigit(CharAt(line, j + 2))
    THEN SubSeq(line, i, j + 2)
    ELSE ""

RECURSIVE findall_prices(_, _)
\* re.findall(r'\$[\d,]+\.[\d]{2}', line), from index i on
findall_prices(line, i) ==
    IF i > Len(line) THEN << >>
    ELSE IF CharAt(line, i) = "$" /\ price_at(line, i, run_end(line, i + 1, "amount")) # ""
    THEN <<price_at(line, i, run_end(line, i + 1, "amount"))>>
             \o findall_prices(line, run_end(line, i + 1, "amount") + 3)
    ELSE findall_prices(line, i + 1)

\* clean_price of the Texas parser
clean_price(price_str) ==
    IF price_str = "" \/ price_str = "**" THEN NaN
    ELSE float(Strip(Remove(Remove(price_str, "$"), ",")))

\* species and product_type of the records of each section, in the order of
\* the if / elif chain of lines 90 .. 148
SectionLabels ==
    <<<<"Pine", "Large Sawtimber">>, <<"Pine", "Small Sawtimber (Chip-N-Saw)">>,
      <<"Hardwood", "Mixed Sawtimber">>, <<"Pine", "Pulpwood">>, <<"Hardwood", "Pulpwood">>>>

\* the first section of the chain whose flag is set, 0 when none is
first_flag(flags) ==
    IF flags.in_large_pine THEN 1
    ELSE IF flags.in_small_pine THEN 2
    ELSE IF flags.in_hardwood_saw THEN 3
    ELSE IF flags.in_pine_pulp THEN 4
    ELSE IF flags.in_hardwood_pulp THEN 5
    ELSE 0

\* the record appended for a year / price line in the section
section_record(section, year, prices) ==
    [year |-> year, region |-> "Statewide", species |-> SectionLabels[section][1],
     product_type |-> SectionLabels[section][2],
     price_unweighted_avg |-> clean_price(prices[1]),
     price_weighted_avg |-> clean_price(prices[2]),
     price_avg |-> clean_price(prices[3]), unit |-> "$/ton"]

\* the lines a page is made of: the five section headers, a year line with
\* three prices, one with two, and a column heading
ReportLines ==
    {"Large Pine Sawtimber", "Small Pine Sawtimber", "Hardwood Sawtimber", "Pine Pulpwood",
     "Hardwood Pulpwood", "2021 $30.25 $1,031.50 $32.00", "2022  $28.00 $29.00",
     "Year Unweighted Weighted"}

\* what the loop body computes from a line alone
line_facts(line, prices) ==
    [branch |-> section_branch(line),
     is_data |-> year_price_match(line),
     year |-> IF year_price_match(line) THEN DigitsValue(SubSeq(line, 1, 4), 0) ELSE 0,
     prices |-> prices]

LineFacts == [line \in ReportLines |-> line_facts(line, findall_prices(line, 1))]

\* the pages: up to MaxLines lines
ReportPages == UNION {[1..n -> ReportLines] : n \in 1..MaxLines}

T5Init ==
    /\ t5Lines \in ReportPages
    /\ t5Pos = 0
    /\ t5Flags = NoSection
    /\ t5Records = << >>
    /\ t5Rows = << >>
    /\ cpFile = NA
    /\ cpPages = << >>
    /\ cpParse = NotParsed
    /\ cpDownload = NotParsed
    /\ pgKind = NA
    /\ pgDoc = << >>
    /\ pgYear = 0
    /\ pgPage = 0
    /\ pgContext = NoContext
    /\ pgRecords = << >>
    /\ pgOrigin = << >>
    /\ unified = NoFile
    /\ normFn = "none"
    /\ normIn = NA
    /\ normOut = NA
    /\ normFirst = NA
    /\ normCalls = 0
    /\ convRec = NaN
    /\ convFirst = NaN
    /\ convCalls = 0
    /\ nhPhase = "idle"
    /\ nhTable = << >>
    /\ nhRegion = NA
    /\ nhHeader = 0
    /\ nhPos = 0
    /\ nhRecords = << >>
    /\ nhRows = << >>
    /\ stats = << >>
    /\ mainError = NA
    /\ withData = {NA}
    /\ texIn = << >>
    /\ texOut = NaN
    /\ texFirst = NaN
    /\ texCalls = 0
    /\ mktMarket = NA
    /\ mktState = NA
    /\ mktStates = <<NA>>
    /\ mktMarkets = <<NA>>

\* one pass of the loop of line 61 over a line that names a section
TrackSection ==
    /\ t5Pos < Len(t5Lines)
    /\ LineFacts[t5Lines[t5Pos + 1]].branch # 0
    /\ t5Pos' = t5Pos + 1
    /\ t5Flags' = track_section(t5Flags, LineFacts[t5Lines[t5Pos + 1]].branch)
    /\ UNCHANGED <<t5Lines, t5Records, t5Rows>>
    /\ UNCHANGED <<normVars, convVars, fileVars, nhVars, runVars, texVars, mktVars, cpVars, pgVars>>

\* one pass of the loop over any other line: a record is appended when the
\* line starts with a year and a price, holds three prices and a flag is set
ParseLine ==
    /\ t5Pos < Len(t5Lines)
    /\ LineFacts[t5Lines[t5Pos + 1]].branch = 0
    /\ t5Pos' = t5Pos + 1
    /\ LET facts == LineFacts[t5Lines[t5Pos + 1]]
       IN  IF facts.is_data /\ first_flag(t5Flags) # 0 /\ Len(facts.prices) >= 3
           THEN /\ t5Records' = Append(t5Records,
                                       section_record(first_flag(t5Flags), facts.year,
                                                      facts.prices))
                /\ t5Rows' = Append(t5Rows, t5Pos + 1)
           ELSE UNCHANGED <<t5Records, t5Rows>>
    /\ UNCHANGED <<t5Lines, t5Flags>>
    /\ UNCHANGED <<normVars, convVars, fileVars, nhVars, runVars, texVars, mktVars, cpVars, pgVars>>

T5Next == TrackSection \/ ParseLine

SpecT5 == T5Init /\ [][T5Next]_vars

-----------------------------------------------------------------------------
(* The page loops: parse_bimonthly_report and parse_annual_report of         *)
(* scripts/parse_texas_stumpage.py, parse_stumpage_pdf of                    *)
(* scripts/parse_nh_stumpage.py                                              *)

\* most lines below the titles of the pages of a Texas report, over all its pages
MaxDocLines == 3

\* current_species after  line.strip() == 'PINE'  and  == 'HARDWOOD',  NA when
\* the line is neither
species_marker(line) ==
    IF Strip(line) = "PINE" THEN "Pine"
    ELSE IF Strip(line) = "HARDWOOD" THEN "Hardwood"
    ELSE NA

\* the branch of the product chain the line takes: the sawtimber word of the
\* parser, Pulpwood or Chip-N-Saw, each with $/Ton; NA when it takes none
product_marker(line, saw_word) ==
    IF Contains(line, saw_word) /\ Contains(line, "$/Ton") THEN saw_word
    ELSE IF Contains(line, "Pulpwood") /\ Contains(line, "$/Ton") THEN "Pulpwood"
    ELSE IF Contains(line, "Chip-N-Saw") /\ Contains(line, "$/Ton") THEN "Chip-N-Saw"
    ELSE NA

\* current_product after the branch, given current_species at that line
product_of(marker, current_species) ==
    IF marker \in {"Sawtimber", "Sawlogs"}
    THEN (IF current_species = "Pine" THEN marker ELSE "Mixed Sawtimber")
    ELSE marker

RegionNames == <<"Northeast TX", "Southeast TX", "Statewide">>

\* the alternatives of (Northeast TX|Southeast TX|Statewide) the line starts
\* with, followed by white space
region_prefixes(line) ==
    {k \in 1..3 : /\ Len(line) > Len(RegionNames[k])
                  /\ SubSeq(line, 1, Len(RegionNames[k])) = RegionNames[k]
                  /\ IsSpace(CharAt(line, Len(RegionNames[k]) + 1))}

\* group(1) of re.match(r'^(Northeast TX|Southeast TX|Statewide)\s+', line),
\* NA without a match
annual_region_match(line) ==
    IF region_prefixes(line) = {} THEN NA ELSE RegionNames[first_or(region_prefixes(line), 0)]

\* the character behind the white space that follows the region name
char_behind_region(line, region) == CharAt(line, run_end(line, Len(region) + 1, "space"))

\* group(1) of re.match(r'^(Northeast TX|Southeast TX|Statewide)\s+\$', line)
bimonthly_region_match(line) ==
    IF annual_region_match(line) # NA /\ char_behind_region(line, annual_region_match(line)) = "$"
    THEN annual_region_match(line) ELSE NA

\* the match of [\d,]+\.[\d]{2} whose amount runs from i to before j
amount_at(line, i, j) ==
    IF /\ j > i
       /\ j + 2 <= Len(line)
       /\ CharAt(line, j) = "."
       /\ IsDigit(CharAt(line, j + 1))
       /\ IsDigit(CharAt(line, j + 2))
    THEN SubSeq(line, i, j + 2)
    ELSE ""

RECURSIVE findall_amounts(_, _)
\* re.findall(r'([\d,]+\.[\d]{2})', line), from index i on
findall_amounts(line, i) ==
    IF i > Len(line) THEN << >>
    ELSE IF amount_at(line, i, run_end(line, i, "amount")) # ""
    THEN <<amount_at(line, i, run_end(line, i, "amount"))>>
             \o findall_amounts(line, run_end(line, i, "amount") + 3)
    ELSE findall_amounts(line, i + 1)

RECURSIVE findall_optional_dollar(_, _)
\* re.findall(r'\$?[\d,]+\.[\d]{2}', line), from index i on
findall_optional_dollar(line, i) ==
    IF i > Len(line) THEN << >>
    ELSE IF CharAt(line, i) = "$" /\ price_at(line, i, run_end(line, i + 1, "amount")) # ""
    THEN <<price_at(line, i, run_end(line, i + 1, "amount"))>>
             \o findall_optional_dollar(line, run_end(line, i + 1, "amount") + 3)
    ELSE IF amount_at(line, i, run_end(line, i, "amount")) # ""
    THEN <<amount_at(line, i, run_end(line, i, "amount"))>>
             \o findall_optional_dollar(line, run_end(line, i, "amount") + 3)
    ELSE findall_optional_dollar(line, i + 1)

\* line.find(p), counted from 1; 0 when p is not in the line
find(line, p) ==
    first_or({i \in 1..(Len(line) - Len(p) + 1) : SubSeq(line, i, i + Len(p) - 1) = p}, 0)

\* line[line.find(p)-1:line.find(p)+1], at being find(line, p): the slice is
\* empty when p is at the start of the line, and the end of the line when p
\* is not found
slice_around(line, at) ==
    IF at = 0 THEN SubSeq(line, Len(line) - 1, Len(line))
    ELSE IF at = 1 THEN ""
    ELSE SubSeq(line, at - 1, at)

\* re.match(r'^\d+\.\d{2}$', p) for a p that findall found
plain_amount(p) == ~Contains(p, "$") /\ ~Contains(p, ",")

\* the test of the dollar_prices comprehension
is_dollar_price(line, p) == Contains(slice_around(line, find(line, p)), "$") \/ plain_amount(p)

\* dollar_prices of line 199
dollar_prices(line) ==
    SelectSeq(findall_optional_dollar(line, 1), LAMBDA p : is_dollar_price(line, p))

\* the three prices of an annual record, << >> where lines 201 and 211 do not
\* let the line through
annual_prices(line, price_parts) ==
    IF Len(dollar_prices(line)) >= 3 /\ Len(price_parts) >= 5
    THEN <<clean_price(price_parts[1]), clean_price(price_parts[3]), clean_price(price_parts[5])>>
    ELSE << >>

\* clean_price(price_match.group(1)) in a one-element list, << >> where
\* re.search(r'\$([\d,]+\.[\d]{2})', line) finds nothing
bimonthly_price(prices) ==
    IF prices = << >> THEN << >> ELSE <<clean_price(SubSeq(prices[1], 2, Len(prices[1])))>>

RECURSIVE header_year_from(_, _)
\* int(group(1)) of re.search(r'(20\d{2})', line), from index i on; 0 without a match
header_year_from(line, i) ==
    IF i + 3 > Len(line) THEN 0
    ELSE IF /\ SubSeq(line, i, i + 1) = "20"
            /\ IsDigit(CharAt(line, i + 2))
            /\ IsDigit(CharAt(line, i + 3))
    THEN DigitsValue(SubSeq(line, i, i + 3), 0)
    ELSE header_year_from(line, i + 1)

\* the first lines of the pages: one of the price table, one of another page
TitleLines == {"Stumpage Prices in Texas", "Texas Timber Price Trends 2023"}

\* the lines below: section lines, product lines of either report, data lines
BodyLines ==
    {"PINE", "HARDWOOD", "Sawtimber $/Ton $/MBF", "Sawlogs $/Ton $/MBF",
     "Northeast TX $25.50 $204.00",
     "Statewide $1,030.00 $240.00 $31.00 $248.00 $30.50"}

\* what the loops find out about a line by itself
page_line_facts(line, region, prices) ==
    [species |-> species_marker(line),
     product |-> [bimonthly |-> product_marker(line, "Sawtimber"),
                  annual |-> product_marker(line, "Sawlogs")],
     region |-> [bimonthly |-> bimonthly_region_match(line), annual |-> region],
     prices |-> [bimonthly |-> bimonthly_price(prices),
                 annual |-> annual_prices(line, findall_amounts(line, 1))],
     stumpage_prices |-> Contains(line, "Stumpage Prices"),
     header_year |-> header_year_from(line, 1)]

PageLineFacts ==
    [line \in TitleLines \cup BodyLines |->
        page_line_facts(line, annual_region_match(line), findall_prices(line, 1))]

\* the context behind a line: a section line sets current_species, a product
\* line current_product, any other line nothing
context_after(kind, facts, context) ==
    IF facts.species # NA THEN [context EXCEPT !.species = facts.species]
    ELSE IF facts.product[kind] # NA
    THEN [context EXCEPT !.product = product_of(facts.product[kind], context.species)]
    ELSE context

\* the dictionary of lines 212-221 or of lines 293-300
texas_page_record(kind, year, region, context, prices) ==
    IF kind = "annual"
    THEN [year |-> year, region |-> region, species |-> context.species,
          product_type |-> context.product, price_unweighted_avg |-> prices[1],
          price_weighted_avg |-> prices[2], price_avg |-> prices[3], unit |-> "$/ton"]
    ELSE [year |-> year, region |-> region, species |-> context.species,
          product_type |-> context.product, price_avg |-> prices[1], unit |-> "$/ton"]

\* what a line appends to records: nothing or one record
line_records(kind, facts, context, year) ==
    IF \/ facts.species # NA
       \/ facts.product[kind] # NA
       \/ facts.region[kind] = NA
       \/ context.species = NA
       \/ context.product = NA
       \/ (kind = "bimonthly" /\ year = 0)
       \/ facts.prices[kind] = << >>
    THEN << >>
    ELSE <<texas_page_record(kind, year, facts.region[kind], context, facts.prices[kind])>>

\* the outcome of the line loop from line i on, put together from line i and the rest
scan_join(records, i, rest) ==
    [context |-> rest.context,
     records |-> records \o rest.records,
     lines |-> (IF records = << >> THEN << >> ELSE <<i>>) \o rest.lines]

RECURSIVE scan_lines(_, _, _, _, _)
\* for line in lines, from line i on: the context at the end, the records
\* appended and the lines they were read from
scan_lines(kind, lines, i, context, year) ==
    IF i > Len(lines) THEN [context |-> context, records |-> << >>, lines |-> << >>]
    ELSE scan_join(line_records(kind, PageLineFacts[lines[i]], context, year), i,
                   scan_lines(kind, lines, i + 1,
                              context_after(kind, PageLineFacts[lines[i]], context), year))

\* 'Stumpage Prices' in text
has_stumpage_prices(lines) == \E i \in 1..Len(lines) : PageLineFacts[lines[i]].stumpage_prices

\* re.search(r'(20\d{2})', text[:500]) on a text of less than 500 characters
header_year(lines) ==
    IF \A i \in 1..Len(lines) : PageLineFacts[lines[i]].header_year = 0 THEN 0
    ELSE PageLineFacts[lines[first_or({i \in 1..Len(lines) :
                                         PageLineFacts[lines[i]].header_year # 0}, 0)]].header_year

\* year as the page leaves it: the one at hand, else the one of the page's text
year_after(year, lines) == IF year = 0 THEN header_year(lines) ELSE year

\* pages of n lines below the title
LinesOfLen(n) == [1..n -> BodyLines]

TexasPages(n) == {<<title>> \o body : title \in TitleLines, body \in LinesOfLen(n)}

\* reports of one page, and of two pages, with at most MaxDocLines lines
\* below the titles in all
TexasDocs ==
    UNION {{<<page>> : page \in TexasPages(n)} : n \in 0..MaxDocLines}
        \cup UNION {{<<first, second>> : first \in TexasPages(c[1]), second \in TexasPages(c[2])} :
                    c \in {d \in (0..MaxDocLines) \X (0..MaxDocLines) : d[1] + d[2] <= MaxDocLines}}

\* the NH file whose pages SpecPages goes through
NhFile == "avg-stump-val-04-23-09-23.pdf"

\* the rows of the table that the NH row loop appends a record for
kept_rows(table, header) ==
    IF header = 0 THEN << >>
    ELSE SelectSeq([i \in 1..Len(table) |-> i],
                   LAMBDA i : i > header /\ ~DocRowFacts[table[i]].skipped.parse)

\* origins of the records of one page
origins(page, lines) == [k \in 1..Len(lines) |-> <<page, lines[k]>>]

\* a report is at hand and its page loop has not begun; year is the year of
\* the file name, 0 when the name has none (NH: the year is in the records)
PagesInit ==
    /\ \/ pgKind = "nh" /\ pgDoc \in DocPages /\ pgYear = 0
       \/ pgKind \in {"bimonthly", "annual"} /\ pgDoc \in TexasDocs /\ pgYear \in {2024, 0}
    /\ pgPage = 0
    /\ pgContext = NoContext
    /\ pgRecords = << >>
    /\ pgOrigin = << >>
    /\ unified = NoFile
    /\ normFn = "none"
    /\ normIn = NA
    /\ normOut = NA
    /\ normFirst = NA
    /\ normCalls = 0
    /\ convRec = NaN
    /\ convFirst = NaN
    /\ convCalls = 0
    /\ nhPhase = "idle"
    /\ nhTable = << >>
    /\ nhRegion = NA
    /\ nhHeader = 0
    /\ nhPos = 0
    /\ nhRecords = << >>
    /\ nhRows = << >>
    /\ stats = << >>
    /\ mainError = NA
    /\ withData = {NA}
    /\ texIn = << >>
    /\ texOut = NaN
    /\ texFirst = NaN
    /\ texCalls = 0
    /\ mktMarket = NA
    /\ mktState = NA
    /\ mktStates = <<NA>>
    /\ mktMarkets = <<NA>>
    /\ t5Lines = << >>
    /\ t5Pos = 0
    /\ t5Flags = NoSection
    /\ t5Records = << >>
    /\ t5Rows = << >>
    /\ cpFile = NA
    /\ cpPages = << >>
    /\ cpParse = NotParsed
    /\ cpDownload = NotParsed

\* one pass of the page loop of parse_stumpage_pdf (parse_nh_stumpage.py)
NhPage ==
    /\ pgKind = "nh"
    /\ pgPage < Len(pgDoc)
    /\ pgPage' = pgPage + 1
    /\ pgContext' = [pgContext EXCEPT !.region =
                         page_region(doc_page_text_upper(pgDoc[pgPage']), "parse",
                                     page_start(pgContext).region)]
    /\ pgRecords' = pgRecords \o
           records_with_period(page_records(pgDoc[pgPage'], "parse", page_start(pgContext).region),
                               parse_period_from_filename(NhFile))
    /\ pgOrigin' = pgOrigin \o
           origins(pgPage', kept_rows(pgDoc[pgPage'], page_header(pgDoc[pgPage'], "parse")))
    /\ UNCHANGED <<pgKind, pgDoc, pgYear>>
    /\ UNCHANGED <<normVars, convVars, fileVars, nhVars, runVars, texVars, mktVars, t5Vars, cpVars>>

\* what one pass of the page loop of parse_bimonthly_report leaves, scanned
\* being the outcome of its line loop: a page without 'Stumpage Prices' is
\* passed over before current_species and current_product are assigned
bimonthly_page(lines, previous, scanned) ==
    IF has_stumpage_prices(lines) THEN scanned
    ELSE [context |-> previous, records |-> << >>, lines |-> << >>]

\* one pass of the page loop of parse_bimonthly_report, which goes through
\* the first three pages
BimonthlyPage ==
    /\ pgKind = "bimonthly"
    /\ pgPage < Len(pgDoc)
    /\ pgPage < 3
    /\ pgPage' = pgPage + 1
    /\ pgYear' = year_after(pgYear, pgDoc[pgPage'])
    /\ pgContext' = bimonthly_page(pgDoc[pgPage'], pgContext,
                                   scan_lines("bimonthly", pgDoc[pgPage'], 1,
                                              page_start(pgContext), pgYear')).context
    /\ pgRecords' = pgRecords \o
           bimonthly_page(pgDoc[pgPage'], pgContext,
                          scan_lines("bimonthly", pgDoc[pgPage'], 1,
                                     page_start(pgContext), pgYear')).records
    /\ pgOrigin' = pgOrigin \o
           origins(pgPage', bimonthly_page(pgDoc[pgPage'], pgContext,
                                           scan_lines("bimonthly", pgDoc[pgPage'], 1,
                                                      page_start(pgContext), pgYear')).lines)
    /\ UNCHANGED <<pgKind, pgDoc>>
    /\ UNCHANGED <<normVars, convVars, fileVars, nhVars, runVars, texVars, mktVars, t5Vars, cpVars>>

\* parse_annual_report: the line loop over pdf.pages[0]
AnnualPage ==
    /\ pgKind = "annual"
    /\ pgPage = 0
    /\ pgPage' = 1
    /\ pgYear' = IF pgYear = 0 THEN 2023 ELSE pgYear
    /\ pgContext' = scan_lines("annual", pgDoc[1], 1, page_start(pgContext), pgYear').context
    /\ pgRecords' = pgRecords \o
           scan_lines("annual", pgDoc[1], 1, page_start(pgContext), pgYear').records
    /\ pgOrigin' = pgOrigin \o
           origins(1, scan_lines("annual", pgDoc[1], 1, page_start(pgContext), pgYear').lines)
    /\ UNCHANGED <<pgKind, pgDoc>>
    /\ UNCHANGED <<normVars, convVars, fileVars, nhVars, runVars, texVars, mktVars, t5Vars, cpVars>>

PagesNext == NhPage \/ BimonthlyPage \/ AnnualPage

SpecPages == PagesInit /\ [][PagesNext]_vars

-----------------------------------------------------------------------------
(* Timber market tables: src/timber_prices/regions.py *)

\* the values of the enum TimberMarket
TimberMarket ==
    {"southern_pine", "douglas_fir", "western_pine", "spruce_fir",
     "appalachian_hardwood", "northern_hardwood", "oak_hickory", "aspen_pulp",
     "national_forest"}

\* MARKET_DEFINITIONS[market].states, in the order written
MARKET_DEFINITIONS(market) ==
    CASE market = "southern_pine" ->
             <<"AL", "AR", "FL", "GA", "LA", "MS", "NC", "SC", "TX", "VA">>
      [] market = "douglas_fir" ->
             <<"OR", "WA", "CA">>
      [] market = "western_pine" ->
             <<"OR", "WA", "ID", "MT">>
      [] market = "spruce_fir" ->
             <<"ME", "NH", "VT", "MI", "MN", "WI">>
      [] market = "appalachian_hardwood" ->
             <<"WV", "VA", "KY", "TN", "PA", "NY", "OH", "MD">>
      [] market = "northern_hardwood" ->
             <<"MI", "MN", "WI", "NY", "VT", "NH", "ME", "PA">>
      [] market = "oak_hickory" ->
             <<"MO", "AR", "IN", "OH", "IL", "OK", "KS">>
      [] market = "aspen_pulp" ->
             <<"MN", "WI", "MI">>
      [] market = "national_forest" ->
             <<"MT", "ID", "CO", "WY", "SD", "NE", "AZ", "NM", "UT", "NV", "CA", "OR">> \o
             <<"WA", "AL", "AR", "FL", "GA", "KY", "LA", "MS", "NC", "OK", "SC", "TN">> \o
             <<"TX", "VA", "IL", "IN", "ME", "MI", "MN", "MO", "NH", "NY", "OH", "PA">> \o
             <<"VT", "WI", "WV", "AK">>

\* one entry of STATE_MARKET_PARTICIPATION
StateMarketParticipation(state, primary_market, secondary_markets) ==
    [state |-> state, primary_market |-> primary_market,
     secondary_markets |-> secondary_markets]

\* STATE_MARKET_PARTICIPATION.items(), in the order written
STATE_MARKET_PARTICIPATION ==
    <<StateMarketParticipation("GA", "southern_pine", <<"appalachian_hardwood">>),
      StateMarketParticipation("AL", "southern_pine", <<"appalachian_hardwood">>),
      StateMarketParticipation("MS", "southern_pine", <<"oak_hickory">>),
      StateMarketParticipation("LA", "southern_pine", <<>>),
      StateMarketParticipation("TX", "southern_pine", <<"oak_hickory">>),
      StateMarketParticipation("AR", "southern_pine", <<"oak_hickory">>),
      StateMarketParticipation("NC", "southern_pine", <<"appalachian_hardwood">>),
      StateMarketParticipation("SC", "southern_pine", <<"appalachian_hardwood">>),
      StateMarketParticipation("FL", "southern_pine", <<>>),
      StateMarketParticipation("VA", "southern_pine", <<"appalachian_hardwood">>),
      StateMarketParticipation("WV", "appalachian_hardwood", <<>>),
      StateMarketParticipation("KY", "appalachian_hardwood", <<"oak_hickory">>),
      StateMarketParticipation("TN", "appalachian_hardwood", <<"oak_hickory", "southern_pine">>),
      StateMarketParticipation("OH", "appalachian_hardwood", <<"oak_hickory", "northern_hardwood">>),
      StateMarketParticipation("MO", "oak_hickory", <<>>),
      StateMarketParticipation("IN", "oak_hickory", <<"northern_hardwood">>),
      StateMarketParticipation("PA", "northern_hardwood", <<"appalachian_hardwood">>),
      StateMarketParticipation("MI", "northern_hardwood", <<"aspen_pulp", "spruce_fir">>),
      StateMarketParticipation("WI", "aspen_pulp", <<"northern_hardwood", "spruce_fir">>),
      StateMarketParticipation("MN", "aspen_pulp", <<"spruce_fir", "northern_hardwood">>),
      StateMarketParticipation("ME", "spruce_fir", <<"northern_hardwood">>),
      StateMarketParticipation("NH", "northern_hardwood", <<"spruce_fir">>),
      StateMarketParticipation("VT", "northern_hardwood", <<"spruce_fir">>),
      StateMarketParticipation("NY", "northern_hardwood", <<"appalachian_hardwood", "spruce_fir">>),
      StateMarketParticipation("OR", "douglas_fir", <<"western_pine">>),
      StateMarketParticipation("WA", "douglas_fir", <<"western_pine">>),
      StateMarketParticipation("CA", "douglas_fir", <<"western_pine">>),
      StateMarketParticipation("ID", "western_pine", <<"douglas_fir">>),
      StateMarketParticipation("MT", "western_pine", <<>>)>>

RECURSIVE sorted(_)
\* sorted(strings) of a list without repeated entries
sorted(strings) ==
    IF strings = << >> THEN << >>
    ELSE LET least == CHOOSE x \in Range(strings) :
                          \A y \in Range(strings) \ {x} : StrLess(x, y)
         IN  <<least>> \o sorted(SelectSeq(strings, LAMBDA x : x # least))

\* get_market_states: the states with the market as primary or secondary market
get_market_states(market) ==
    LET hits == SelectSeq(STATE_MARKET_PARTICIPATION,
                          LAMBDA p : \/ p.primary_market = market
                                     \/ market \in Range(p.secondary_markets))
    IN  sorted([i \in 1..Len(hits) |-> hits[i].state])

\* get_state_markets: the primary market, then the secondary markets
get_state_markets(state) ==
    LET found == SelectSeq(STATE_MARKET_PARTICIPATION, LAMBDA p : p.state = state)
    IN  IF found = << >> THEN << >>
        ELSE <<found[1].primary_market>> \o found[1].secondary_markets

\* the state codes of the two tables, and one that is in neither
MarketStateCodes ==
    {STATE_MARKET_PARTICIPATION[i].state : i \in 1..Len(STATE_MARKET_PARTICIPATION)}
        \cup UNION {Range(MARKET_DEFINITIONS(market)) : market \in TimberMarket}
        \cup {"HI"}

\* a caller picks a market and a state
MarketInit ==
    /\ mktMarket \in TimberMarket
    /\ mktState \in MarketStateCodes
    /\ mktStates = <<NA>>
    /\ mktMarkets = <<NA>>
    /\ t5Lines = << >>
    /\ t5Pos = 0
    /\ t5Flags = NoSection
    /\ t5Records = << >>
    /\ t5Rows = << >>
    /\ cpFile = NA
    /\ cpPages = << >>
    /\ cpParse = NotParsed
    /\ cpDownload = NotParsed
    /\ pgKind = NA
    /\ pgDoc = << >>
    /\ pgYear = 0
    /\ pgPage = 0
    /\ pgContext = NoContext
    /\ pgRecords = << >>
    /\ pgOrigin = << >>
    /\ unified = NoFile
    /\ normFn = "none"
    /\ normIn = NA
    /\ normOut = NA
    /\ normFirst = NA
    /\ normCalls = 0
    /\ convRec = NaN
    /\ convFirst = NaN
    /\ convCalls = 0
    /\ nhPhase = "idle"
    /\ nhTable = << >>
    /\ nhRegion = NA
    /\ nhHeader = 0
    /\ nhPos = 0
    /\ nhRecords = << >>
    /\ nhRows = << >>
    /\ stats = << >>
    /\ mainError = NA
    /\ withData = {NA}
    /\ texIn = << >>
    /\ texOut = NaN
    /\ texFirst = NaN
    /\ texCalls = 0

\* the caller asks for the states of the market
GetMarketStates ==
    /\ mktMarket # NA
    /\ mktStates = <<NA>>
    /\ mktStates' = get_market_states(mktMarket)
    /\ UNCHANGED <<mktMarket, mktState, mktMarkets>>
    /\ UNCHANGED <<normVars, convVars, fileVars, nhVars, runVars, texVars, t5Vars, cpVars, pgVars>>

\* the caller asks for the markets of the state
GetStateMarkets ==
    /\ mktState # NA
    /\ mktMarkets = <<NA>>
    /\ mktMarkets' = get_state_markets(mktState)
    /\ UNCHANGED <<mktMarket, mktState, mktStates>>
    /\ UNCHANGED <<normVars, convVars, fileVars, nhVars, runVars, texVars, t5Vars, cpVars, pgVars>>

MarketNext == GetMarketStates \/ GetStateMarkets

SpecMarkets == MarketInit /\ [][MarketNext]_vars

-----------------------------------------------------------------------------
(* Claims about the records of the unified file (C1, C2, C3, C6) *)

\* the records of unified_stumpage.csv as the last run left them
UnifiedRecords == Range(unified.rows)

\* C1: after the conversion pass of a unification run, every record whose unit
\* is $/ton has conversion_factor exactly 1.0 and price_per_ton equal to its
\* price_avg.
C1_TonIdentity ==
    \A r \in UnifiedRecords :
        r.unit = "$/ton" =>
            /\ r.conversion_factor = Rat(1, 1)
            /\ r.price_per_ton = r.price_avg

\* the unified file holds a $/ton record priced 100.00, carried at 100.00 per ton
C1_Witness ==
    \E r \in UnifiedRecords :
        /\ r.unit = "$/ton"
        /\ r.price_avg = Money(100, 0)
        /\ r.price_per_ton = Money(100, 0)
        /\ r.conversion_factor = Rat(1, 1)

\* C2: every record whose unit is index (all Michigan records) has price_per_ton
\* null and conversion_factor null, whatever its price_avg and species are.
C2_IndexNeverConverted ==
    \A r \in UnifiedRecords :
        (r.unit = "index" \/ r.source = "MI") =>
            /\ r.unit = "index"
            /\ r.price_per_ton = NaN
            /\ r.conversion_factor = NaN

\* the unified file holds a Michigan index record that has a price_avg
C2_Witness ==
    \E r \in UnifiedRecords :
        /\ r.source = "MI"
        /\ r.unit = "index"
        /\ r.price_avg = Money(100, 0)
        /\ r.price_per_ton = NaN

CanonicalConvertibleUnits == {"$/ton", "$/cord", "$/mbf"}

\* C3: in every state of the unified file, a record with non-null price_per_ton
\* has a unit among $/ton, $/cord, $/mbf and a non-null conversion_factor, and a
\* record whose unit is none of the recognized units ($/ton, $/cord, $/mbf,
\* index) has both price_per_ton and conversion_factor null.
C3_ConvertedOnlyCanonicalUnits ==
    \A r \in UnifiedRecords :
        /\ r.price_per_ton # NaN =>
               /\ r.unit \in CanonicalConvertibleUnits
               /\ r.conversion_factor # NaN
        /\ r.unit \notin CanonicalConvertibleUnits \cup {"index"} =>
               /\ r.price_per_ton = NaN
               /\ r.conversion_factor = NaN

\* C6: every record whose unit is MBF-based carries the registry's tons-per-MBF
\* factor for its species text (7.0 with a softwood keyword, 8.5 otherwise),
\* whichever script produced the record.
C6_MbfFactorFromRegistry ==
    \A r \in UnifiedRecords :
        (r.unit # NA /\ Contains(Lower(r.unit), "mbf")) =>
            r.conversion_factor =
                get_mbf_to_ton_factor(IF r.species = NA THEN "" ELSE r.species,
                                      r.product_type)

-----------------------------------------------------------------------------
(* Claims about the Price Unit Converter on one record (C4, C5) *)

\* C4: the conversion pass is idempotent: a second pass over an already
\* converted record leaves conversion_factor and price_per_ton (and the rest
\* of the record) as the first pass left them.
C4_ConversionIdempotent ==
    convCalls >= 2 =>
        /\ convRec.conversion_factor = convFirst.conversion_factor
        /\ convRec.price_per_ton = convFirst.price_per_ton
        /\ convRec = convFirst

\* a $/cord record with a price has been converted twice
C4_Witness ==
    /\ convCalls = 2
    /\ convRec.unit = "$/cord"
    /\ convRec.species = "Red Oak"
    /\ convRec.price_avg = Money(100, 0)
    /\ convRec.conversion_factor = Rat(290, 100)
    /\ convRec.price_per_ton = Rat(10000, 290)

\* the tons-per-cord factor of the first matching group, for group keyword sets
SoftwoodWords == {"pine", "spruce", "fir", "hemlock", "cedar"}
HardHardwoodWords == {"oak", "hickory", "beech", "hard maple", "walnut", "cherry"}
SoftHardwoodWords == {"poplar", "sweetgum", "basswood", "soft maple", "aspen", "cottonwood"}

CordFactorByGroups(species, softwood, hard, soft) ==
    LET sl == IF species = NA THEN "" ELSE Lower(species)
    IN  IF ContainsAny(sl, softwood) THEN Rat(267, 100)
        ELSE IF ContainsAny(sl, hard) THEN Rat(290, 100)
        ELSE IF ContainsAny(sl, soft) THEN Rat(270, 100)
        ELSE Rat(280, 100)

CordConverted == convCalls >= 1 /\ convRec.unit = "$/cord"

\* C5 as stated: softwood (pine/spruce/fir/hemlock/cedar) -> 2.67, hard hardwood
\* (oak/hickory/beech/hard maple/walnut/cherry) -> 2.90, soft hardwood
\* (poplar/sweetgum/basswood/soft maple/aspen/cottonwood) -> 2.70, in that order,
\* and 2.80 for every other species text.
C5_CordFactorDocumentedGroups ==
    CordConverted =>
        convRec.conversion_factor =
            CordFactorByGroups(convRec.species, SoftwoodWords, HardHardwoodWords,
                               SoftHardwoodWords)

\* C5 amended: as stated, with the keyword "softwood" also in the softwood group,
\* "sugar maple" also in the hard hardwood group and "tulip" also in the soft
\* hardwood group; 2.80 for every other text and for an absent species; and
\* "Loblolly Pine" at $/cord is converted with 2.67.
C5_CordFactorFirstGroup ==
    /\ CordConverted =>
           convRec.conversion_factor =
               CordFactorByGroups(convRec.species,
                                  SoftwoodWords \cup {"softwood"},
                                  HardHardwoodWords \cup {"sugar maple"},
                                  SoftHardwoodWords \cup {"tulip"})
    /\ (CordConverted /\ convRec.species = "Loblolly Pine") =>
           convRec.conversion_factor = Rat(267, 100)
    /\ (CordConverted /\ convRec.conversion_factor # NaN /\ convRec.price_avg # NaN) =>
           convRec.price_per_ton = RatDiv(convRec.price_avg, convRec.conversion_factor)

\* Loblolly Pine at 53.40 $/cord has been converted with 2.67 to 20 $/ton
C5_Witness ==
    /\ convCalls = 1
    /\ convRec.unit = "$/cord"
    /\ convRec.species = "Loblolly Pine"
    /\ convRec.price_avg = Money(53, 40)
    /\ convRec.conversion_factor = Rat(267, 100)
    /\ convRec.price_per_ton = Rat(20, 1)

-----------------------------------------------------------------------------
(* Claims about standardize_product_type (C7, C8, C9) *)

\* The category rules in the documented order, numbered:
\*  1 sawtimber variants   2 generic log   3 whole text "mbf"   4 pulpwood
\*  5 chip-n-saw   6 veneer   7 poles   8 firewood/fuelwood   9 fiber
\* 10 biomass   11 boltwood   12 studwood   13 cordwood   14 posts
\* 15 crossties   16 plylogs   17 topwood   18 fuelchips   19 stumpage
\* 20 total/index
RuleIds == 1..20

\* when rule i applies to the lower-cased, trimmed text p (rules other than 2)
KeywordRuleHit(i, p) ==
    CASE i = 1  -> ContainsAny(p, {"sawtimber", "sawlog", "saw log"})
      [] i = 3  -> p = "mbf"
      [] i = 4  -> Contains(p, "pulp")
      [] i = 5  -> Contains(p, "chip") /\ Contains(p, "saw")
      [] i = 6  -> Contains(p, "veneer")
      [] i = 7  -> Contains(p, "pole")
      [] i = 8  -> \/ ContainsAny(p, {"firewood", "fuelwood"})
                   \/ (Contains(p, "fuel") /\ ~Contains(p, "chip"))
      [] i = 9  -> Contains(p, "fiber")
      [] i = 10 -> Contains(p, "biomass")
      [] i = 11 -> Contains(p, "bolt")
      [] i = 12 -> Contains(p, "stud")
      [] i = 13 -> Contains(p, "cordwood") \/ p = "cord"
      [] i = 14 -> Contains(p, "post")
      [] i = 15 -> Contains(p, "tie")
      [] i = 16 -> Contains(p, "plylog")
      [] i = 17 -> ContainsAny(p, {"t-wood", "topwood"})
      [] i = 18 -> Contains(p, "fuelchip")
      [] i = 19 -> Contains(p, "stumpage")
      [] i = 20 -> ContainsAny(p, {"total", "index"})
      [] OTHER  -> FALSE

\* the category rule i assigns to p
RuleCategory(i, p) ==
    CASE i = 1  -> IF Contains(p, "large") THEN "sawtimber_large"
                   ELSE IF Contains(p, "small") THEN "sawtimber_small"
                   ELSE "sawtimber"
      [] i \in {2, 3, 19} -> "sawtimber"
      [] i = 4  -> "pulpwood"
      [] i = 5  -> "chip-n-saw"
      [] i = 6  -> "veneer"
      [] i = 7  -> "poles"
      [] i = 8  -> "firewood"
      [] i = 9  -> "fiber_fuel"
      [] i = 10 -> "biomass"
      [] i = 11 -> "boltwood"
      [] i = 12 -> "studwood"
      [] i = 13 -> "cordwood"
      [] i = 14 -> "posts"
      [] i = 15 -> "crossties"
      [] i = 16 -> "plylogs"
      [] i = 17 -> "topwood"
      [] i = 18 -> "fuelchips"
      [] i = 20 -> "total_index"

\* the generic log rule read as a keyword: the text contains "log"
KeywordHits(p) ==
    {i \in RuleIds : IF i = 2 THEN Contains(p, "log") ELSE KeywordRuleHit(i, p)}

\* the generic log rule read as the whole text being "log" or "logs"
RuleHits(p) ==
    {i \in RuleIds : IF i = 2 THEN p \in {"log", "logs"} ELSE KeywordRuleHit(i, p)}

Earliest(hits) == CHOOSE i \in hits : \A j \in hits : i <= j

ProductCalledOnce == normFn = "product" /\ normCalls = 1 /\ normIn # NA

\* C7 as stated: whenever keywords of category rules occur in the text (the
\* generic log rule by its keyword "log"), the result is the category of the
\* earliest rule in the documented order.
C7_EarliestKeywordWins ==
    ProductCalledOnce =>
        LET p == Strip(Lower(normIn))
        IN  KeywordHits(p) # {} => normOut = RuleCategory(Earliest(KeywordHits(p)), p)

\* C7 amended: the result is the category of the earliest rule in the documented
\* order that applies, where the generic log rule applies only to the whole
\* text "log" or "logs" (and the whole text "mbf" is sawtimber); so
\* "Small Pine Sawtimber" -> sawtimber_small, "pine pulpwood" -> pulpwood,
\* "pine sawlog chips" -> sawtimber, while "veneer logs" -> veneer.
C7_FirstApplicableRuleWins ==
    ProductCalledOnce =>
        LET p == Strip(Lower(normIn))
        IN  /\ RuleHits(p) # {} => normOut = RuleCategory(Earliest(RuleHits(p)), p)
            /\ normIn = "Small Pine Sawtimber" => normOut = "sawtimber_small"
            /\ normIn = "pine pulpwood" => normOut = "pulpwood"
            /\ normIn = "pine sawlog chips" => normOut = "sawtimber"

\* keywords of three rules co-occur in "pine sawlog chips" and the earliest decided
C7_Witness ==
    /\ ProductCalledOnce
    /\ normIn = "pine sawlog chips"
    /\ Cardinality(RuleHits(Strip(Lower(normIn)))) >= 2
    /\ normOut = "sawtimber"

\* C8: standardize_product_type is idempotent: a second application returns
\* what the first returned, in particular for every canonical category name.
C8_ProductIdempotent ==
    (normFn = "product" /\ normCalls >= 2) => normOut = normFirst

\* C9 as stated: a text that no category rule applies to is returned unchanged,
\* character for character.
C9_UnmatchedUnchanged ==
    (ProductCalledOnce /\ RuleHits(Strip(Lower(normIn))) = {}) => normOut = normIn

\* C9 amended: a text that no category rule applies to is returned lower-cased
\* and stripped of surrounding whitespace (unchanged only when it already is),
\* and an absent text yields the absent marker.
C9_UnmatchedLowerStripped ==
    /\ (ProductCalledOnce /\ RuleHits(Strip(Lower(normIn))) = {})
           => normOut = Strip(Lower(normIn))
    /\ (normFn = "product" /\ normCalls = 1 /\ normIn = NA) => normOut = NA

\* an unmatched, mixed-case text has passed through the function
C9_Witness ==
    /\ ProductCalledOnce
    /\ normIn = "Mystery_Product_XYZ"
    /\ RuleHits(Strip(Lower(normIn))) = {}
    /\ normOut = "mystery_product_xyz"

-----------------------------------------------------------------------------
(* Claims about standardize_unit (C10) *)

UnitCalledOnce == normFn = "unit" /\ normCalls = 1

\* the unit the documented rules give for a text whose matching form is m
\* and whose passthrough form is t
UnitByRules(m, t) ==
    IF Contains(m, "mbf") \/ Contains(m, "thousand board") THEN "$/mbf"
    ELSE IF Contains(m, "cord") THEN "$/cord"
    ELSE IF Contains(m, "ton") THEN "$/ton"
    ELSE t

-----------------------------------------------------------------------------
(* Claims about the NH table parser (C11 .. C15) *)

\* a cell's text, upper-cased, contains one of the header keywords
HeaderCell(cell) ==
    cell # NA /\ \E kw \in {"SPECIES", "PRODUCT", "LOW", "HIGH"} : Contains(Upper(cell), kw)

HeaderLike(row) == \E i \in 1..Len(row) : HeaderCell(row[i])

\* for every row a table can hold, whether it has a header keyword
HeaderLikeOf == [row \in NhRows |-> HeaderLike(row)]

\* the indices of the table rows with a header keyword
HeaderLikeRows == {i \in 1..Len(nhTable) : HeaderLikeOf[nhTable[i]]}

\* the index of the first row of a non-empty set of row indices
FirstOf(rows) == CHOOSE h \in rows : \A i \in rows : h <= i

\* the table row the k-th record came from, and its index
SourceIdx(k) == nhRows[k]
SourceRow(k) == nhTable[nhRows[k]]

\* C11: a table in which no row has a cell matching a header keyword yields no
\* record; the header is the first row with such a cell, and no row at or
\* before the header is emitted as data.
C11_NothingBeforeHeader ==
    LET headers == HeaderLikeRows
    IN  /\ headers = {} => nhRecords = << >>
        /\ nhHeader # 0 =>
               /\ nhHeader \in headers
               /\ \A i \in headers : nhHeader <= i
        /\ \A k \in 1..Len(nhRows) :
               /\ headers # {}
               /\ SourceIdx(k) > FirstOf(headers)
        /\ (nhPhase = "done" /\ headers = {}) => nhHeader = 0

\* a table of priced data rows without any header row has been scanned to its
\* end and has given no record
C11_Witness ==
    /\ nhPhase = "done"
    /\ HeaderLikeRows = {}
    /\ Len(nhTable) >= 2
    /\ \E i \in 1..Len(nhTable) : nhTable[i][1] = "White Oak"
    /\ nhRecords = << >>

\* C12: a 5-cell row yields species, product_type, price_low, price_high, unit
\* from cells 1..5 (White Oak / Sawlogs / 250.00 / 350.00 / MBF for the example
\* row), a 3-cell row yields only species, price_low, price_high, and no row
\* with fewer than 3 cells is emitted.
C12_FieldsByArity ==
    \A k \in 1..Len(nhRecords) :
        LET row == SourceRow(k)
            rec == nhRecords[k]
        IN  /\ Len(row) >= 3
            /\ Len(row) = 5 =>
                   /\ rec.species = cell_text(row[1])
                   /\ rec.product_type = cell_text(row[2])
                   /\ rec.price_low = cell_price(row[3])
                   /\ rec.price_high = cell_price(row[4])
                   /\ rec.unit = cell_text(row[5])
            /\ row = <<"White Oak", "Sawlogs", "250.00", "350.00", "MBF">> =>
                   /\ rec.species = "White Oak"
                   /\ rec.product_type = "Sawlogs"
                   /\ rec.price_low = Money(250, 0)
                   /\ rec.price_high = Money(350, 0)
                   /\ rec.unit = "MBF"
            /\ Len(row) = 3 =>
                   /\ rec.species = cell_text(row[1])
                   /\ rec.price_low = cell_price(row[2])
                   /\ rec.price_high = cell_price(row[3])
                   /\ rec.product_type = ""
                   /\ rec.unit = ""

\* a 2-cell row was passed over and a 5-cell and a 3-cell row gave records
C12_Witness ==
    /\ nhPhase = "done"
    /\ \E i \in (nhHeader + 1)..Len(nhTable) : Len(nhTable[i]) = 2
    /\ \E k \in 1..Len(nhRecords) :
           Len(SourceRow(k)) = 5 /\ nhRecords[k].product_type = "Sawlogs"
    /\ \E k \in 1..Len(nhRecords) :
           Len(SourceRow(k)) = 3 /\ nhRecords[k].price_low = Money(35, 0)

\* the product in force when row idx is scanned: the product_type of the last
\* 5-cell data row emitted before it, "" when there is none
ProductInForce(idx) ==
    LET earlier == {k \in 1..Len(nhRows) : nhRows[k] < idx /\ Len(SourceRow(k)) = 5}
    IN  IF earlier = {} THEN ""
        ELSE nhRecords[CHOOSE k \in earlier : \A j \in earlier : j <= k].product_type

\* C13: a 4-cell row yields species, price_low, price_high and unit from its
\* cells, and its product_type is the product in force when the row is scanned,
\* not empty.
C13_FourCellInheritsProduct ==
    \A k \in 1..Len(nhRecords) :
        Len(SourceRow(k)) = 4 =>
            /\ nhRecords[k].species = cell_text(SourceRow(k)[1])
            /\ nhRecords[k].price_low = cell_price(SourceRow(k)[2])
            /\ nhRecords[k].price_high = cell_price(SourceRow(k)[3])
            /\ nhRecords[k].unit = cell_text(SourceRow(k)[4])
            /\ nhRecords[k].product_type = ProductInForce(SourceIdx(k))

\* a price value that is a number: neither missing nor the float nan
IsNumber(v) == v # NaN /\ v # float_nan

\* the low and high price cells of a row of at least 3 cells
PriceCells(row) == IF Len(row) >= 5 THEN <<row[3], row[4]>> ELSE <<row[2], row[3]>>

\* the rows scanned so far that pass the header, reject list and arity filters
ScannedDataRows ==
    {i \in (nhHeader + 1)..nhPos :
        /\ nhHeader # 0
        /\ Len(nhTable[i]) >= 3
        /\ nhTable[i][1] # NA
        /\ Strip(nhTable[i][1]) # ""
        /\ ~ContainsAny(Upper(nhTable[i][1]), RejectKeywords)}

\* C14: a row that passes the header, reject list and arity filters is emitted
\* if and only if at least one of its low / high cells parses to a number; a
\* row whose low and high are both null is dropped, not kept with nulls.
C14_EmittedIffPriced ==
    /\ \A i \in ScannedDataRows :
           (\E k \in 1..Len(nhRows) : nhRows[k] = i)
               <=> (\E c \in 1..2 : IsNumber(cell_price(PriceCells(nhTable[i])[c])))
    /\ \A k \in 1..Len(nhRecords) :
           IsNumber(nhRecords[k].price_low) \/ IsNumber(nhRecords[k].price_high)

RegionMarkers == {"NORTHERN", "CENTRAL", "SOUTHERN"}

RegionName(marker) ==
    IF marker = "NORTHERN" THEN "Northern"
    ELSE IF marker = "CENTRAL" THEN "Central"
    ELSE "Southern"

\* the region marker rows scanned so far
MarkerRows ==
    {i \in (nhHeader + 1)..nhPos :
        /\ nhHeader # 0
        /\ nhTable[i] # << >>
        /\ nhTable[i][1] # NA
        /\ Strip(Upper(nhTable[i][1])) \in RegionMarkers}

\* C15: a row whose first cell is a region keyword is never emitted, and every
\* record emitted after it, up to the next region marker row, carries its
\* region.
C15_RegionFromLastMarker ==
    /\ \A k \in 1..Len(nhRows) : SourceIdx(k) \notin MarkerRows
    /\ \A k \in 1..Len(nhRows) :
           LET before == {m \in MarkerRows : m < SourceIdx(k)}
           IN  before # {} =>
                   nhRecords[k].region =
                       RegionName(Strip(Upper(
                           nhTable[CHOOSE m \in before : \A j \in before : j <= m][1])))

-----------------------------------------------------------------------------
(* Claims about a unification run (C16, C18, C19) *)

\* the deduplication key of a record of the unified file
UnifiedKey(r) == <<r.source, r.year, r.quarter, r.region, r.species, r.product_type>>

\* the last script that ran was a unification run and it wrote the unified file
JustUnified == withData # {NA} /\ mainError = NA

\* C16: the unified file written by a unification run holds no two records with
\* the same (source, year, quarter, region, species, product_type) key, even
\* when a source file repeats a key.
C16_NoDuplicateKeys ==
    JustUnified =>
        \A i, j \in 1..Len(unified.rows) :
            i # j => UnifiedKey(unified.rows[i]) # UnifiedKey(unified.rows[j])

\* the source code a loader writes into its records
SourceCode(name) ==
    IF name = "Michigan" THEN "MI" ELSE IF name = "Minnesota" THEN "MN" ELSE "WI"

\* the rows of the unified file that carry the loader's source code
RowsOf(name) == {i \in 1..Len(unified.rows) : unified.rows[i].source = SourceCode(name)}

\* the summary marks of a source without data: Empty, or Error followed by the
\* first 30 characters of the message
EmptyOrError30 ==
    {"[yellow]Empty[/yellow]",
     "[red]Error: No columns to parse from file[/red]",
     "[red]Error: Error tokenizing data. C error[/red]"}

\* C18: when at least one source has data, the run does not abort, whichever
\* other sources are missing or fail; each of those is recorded as Empty or as
\* Error with the message cut to 30 characters, and the unified file holds
\* exactly the records of the sources with data.
C18_RunSurvivesFaultySources ==
    (withData # {NA} /\ withData # {}) =>
        /\ mainError = NA
        /\ unified.exists
        /\ Len(stats) = Len(Loaders)
        /\ \A i \in 1..Len(stats) :
               /\ stats[i].State = Loaders[i]
               /\ Cardinality(RowsOf(Loaders[i])) = stats[i].Records
               /\ IF Loaders[i] \in withData
                  THEN stats[i].Status = "[green]OK[/green]" /\ stats[i].Records > 0
                  ELSE stats[i].Status \in EmptyOrError30 /\ stats[i].Records = 0
        /\ \A k \in 1..Len(unified.rows) :
               \E name \in withData : unified.rows[k].source = SourceCode(name)

\* a run with one unreadable source whose message is longer than 30 characters,
\* one source with data and one source without rows has written the file
C18_Witness ==
    /\ withData = {"Minnesota"}
    /\ stats[1].Status = "[red]Error: Error tokenizing data. C error[/red]"
    /\ stats[3].Status = "[yellow]Empty[/yellow]"
    /\ Len(unified.rows) = 1
    /\ unified.rows[1].source = "MN"

\* C19: when no source has data the run ends with the exception of pd.concat and
\* writes nothing: the unified file is as it was before the run, and no file is
\* created when there was none.
C19_NoDataNoWrite ==
    [][withData' = {} => (mainError' = ConcatError /\ unified' = unified)]_vars

\* a run without any data has ended with the exception while a unified file of
\* an earlier run is still there
C19_Witness ==
    /\ withData = {}
    /\ mainError = ConcatError
    /\ unified.exists
    /\ unified.rows # << >>

-----------------------------------------------------------------------------
(* Claims about what a run leaves in the unified file (C22 .. C27) *)

\* the step is a unification run that completed
UnifyCompleted == withData' # {NA} /\ mainError' = NA

\* the number of records of a frame that carry the source code
CountSource(df, source) == Cardinality({i \in 1..Len(df) : df[i].source = source})

\* C22: a unification run that completes is a full rewrite: the unified file
\* then holds exactly the records of that run's source loaders (for each
\* loader as many records of its source as the run loaded, and none of another
\* source), and no TN or USFS PNW record of the file's previous state survives.
C22_FullRewrite ==
    [][UnifyCompleted =>
           /\ unified'.exists
           /\ \A i \in 1..Len(Loaders) :
                  CountSource(unified'.rows, SourceCode(Loaders[i])) = stats'[i].Records
           /\ \A r \in Range(unified'.rows) :
                  /\ r.source \in {SourceCode(Loaders[i]) : i \in 1..Len(Loaders)}
                  /\ r.source # "TN"
                  /\ ~is_usfs(r)]_vars

\* a unification run has completed and written the records of two sources
C22_Witness ==
    /\ JustUnified
    /\ unified.exists
    /\ Cardinality({r.source : r \in Range(unified.rows)}) = 2

RECURSIVE SumRecords(_)
\* the sum of the Records column of a summary
SumRecords(entries) ==
    IF entries = << >> THEN 0 ELSE Head(entries).Records + SumRecords(Tail(entries))

UsfsRun(in) ==
    /\ withData' = {NA}
    /\ unified.exists
    /\ usfs_pnw_unified(in[1], in[2]) # << >>
    /\ ~notes_str_raises(read_csv(unified))
    /\ unified' = File(integrate_usfs(read_csv(unified), usfs_pnw_unified(in[1], in[2])))

\* C24: a run of the USFS PNW integration leaves as USFS PNW records exactly
\* the current batch, a second run on the same inputs would leave the same
\* records, as many of them, and of a combined and a species-specific record
\* with the same (source, year, species, region) the batch holds the
\* species-specific one.
C24_UsfsNoDuplicates ==
    [][\A in \in UsfsInputs :
           UsfsRun(in) =>
               LET batch == usfs_pnw_unified(in[1], in[2])
                   again == integrate_usfs(read_csv(unified'), batch)
               IN  /\ {r \in Range(unified'.rows) : is_usfs(r)} = Range(batch)
                   /\ CountSource(unified'.rows, "CA") = CountSource(batch, "CA")
                   /\ Range(again) = Range(read_csv(unified'))
                   /\ Len(again) = Len(unified'.rows)
                   /\ \A c \in Range(transform_combined(in[1])) :
                          \A sp \in Range(transform_species(in[2])) :
                              usfs_dup_key(c) = usfs_dup_key(sp) =>
                                  /\ c \notin Range(unified'.rows)
                                  /\ sp \in Range(unified'.rows)]_vars

\* the unified file holds the species-specific record of the colliding pair
\* beside records of the unification run
C24_Witness ==
    /\ unified.exists
    /\ transform_species(<<UsfsCollidingRows[2]>>)[1] \in Range(unified.rows)
    /\ \E r \in Range(unified.rows) : r.source = "MI"

\* the step is a run of the TN integration with the batch that wrote the
\* unified file
TnRun(batch) ==
    /\ withData' = {NA}
    /\ unified.exists
    /\ unified' = File(integrate_tn(read_csv(unified), batch))

\* the TN records of a frame
TnRecords(df) == {r \in Range(df) : r.source = "TN"}

\* C25: after a run of the TN integration a second run with the same batch
\* would leave the same set of records.
C25_TnIdempotent ==
    [][\A batch \in TnBatches :
           TnRun(batch) =>
               Range(integrate_tn(read_csv(unified'), batch)) = Range(read_csv(unified'))]_vars

\* C26: after a run of the TN integration every TN record of the existing
\* file whose year is not a year of the batch is still in the file.
C26_TnOtherYearsKept ==
    [][\A batch \in TnBatches :
           TnRun(batch) =>
               \A r \in TnRecords(read_csv(unified)) :
                   r.year \notin {b.year : b \in Range(batch)}
                       => r \in Range(read_csv(unified'))]_vars

\* C27: a run of the TN integration leaves the records of every other source
\* as they were, with every field value.
C27_TnLeavesOtherSources ==
    [][\A batch \in TnBatches :
           TnRun(batch) =>
               Range(read_csv(unified')) \ TnRecords(read_csv(unified'))
                   = Range(read_csv(unified)) \ TnRecords(read_csv(unified))]_vars

\* the unified file holds TN records of two years beside the records of a
\* unification run and of the USFS PNW integration
C27_Witness ==
    /\ unified.exists
    /\ Cardinality({r.year : r \in TnRecords(unified.rows)}) = 2
    /\ \E r \in Range(unified.rows) : r.source = "MI"
    /\ \E r \in Range(unified.rows) : is_usfs(r)

-----------------------------------------------------------------------------
(* Claims about the Texas deduplication (C17, C20) *)

\* the number of price fields of a record that hold a value
NonNullPrices(r) ==
    Cardinality({f \in {"price_avg", "price_unweighted_avg", "price_weighted_avg"} :
                    r[f] # NaN})

SameKey(r, q) ==
    /\ r.year = q.year
    /\ r.region = q.region
    /\ r.species = q.species
    /\ r.product_type = q.product_type

\* C17: of the records that share a deduplication key exactly one is retained,
\* and it has the greatest number of non-null price fields among them (a record
\* with three prices beats one with price_avg only).
C17_MostCompleteRecordKept ==
    texOut # NaN =>
        /\ \A k \in 1..Len(texOut) :
               /\ texOut[k] \in Range(texIn)
               /\ \A q \in Range(texIn) :
                      SameKey(texOut[k], q) => NonNullPrices(q) <= NonNullPrices(texOut[k])
               /\ \A j \in 1..Len(texOut) : SameKey(texOut[k], texOut[j]) => j = k
        /\ \A q \in Range(texIn) : \E k \in 1..Len(texOut) : SameKey(texOut[k], q)

\* the record with price_avg only came before the record with three prices of
\* the same key, and the one with three prices has been retained
C17_Witness ==
    /\ texOut # NaN
    /\ Len(texIn) >= 2
    /\ NonNullPrices(texIn[1]) = 1
    /\ \E i \in 2..Len(texIn) : SameKey(texIn[i], texIn[1]) /\ NonNullPrices(texIn[i]) = 3
    /\ \E k \in 1..Len(texOut) : SameKey(texOut[k], texIn[1]) /\ NonNullPrices(texOut[k]) = 3

\* C20: two runs over the same records in different orders retain the same set
\* of records, also when records of one key tie on the number of non-null price
\* fields and differ in their prices.
C20_OrderIndependent ==
    texCalls >= 2 => Range(texOut) = Range(texFirst)

-----------------------------------------------------------------------------
(* Claims about the market tables (C30) *)

\* the markets other than the administered National Forest system
PrivateMarkets == TimberMarket \ {"national_forest"}

\* C30: for every private timber market m the states get_market_states(m)
\* returns are the states of MARKET_DEFINITIONS[m].states, and a state s is
\* among get_market_states(m) exactly when m is among get_state_markets(s).
C30_MarketTablesAgree ==
    /\ (mktMarket \in PrivateMarkets /\ mktStates # <<NA>>)
           => Range(mktStates) = Range(MARKET_DEFINITIONS(mktMarket))
    /\ (mktMarket \in PrivateMarkets /\ mktStates # <<NA>> /\ mktMarkets # <<NA>>)
           => (mktState \in Range(mktStates) <=> mktMarket \in Range(mktMarkets))

-----------------------------------------------------------------------------
(* Claims about the Texas 5-year report parser (C28) *)

\* the flags that are set
ActiveFlags == {f \in DOMAIN t5Flags : t5Flags[f]}

\* the branch of the section header seen last before line idx, 0 when none
LastSection(idx) ==
    LET headers == {i \in 1..(idx - 1) : LineFacts[t5Lines[i]].branch # 0}
    IN  IF headers = {} THEN 0
        ELSE LineFacts[t5Lines[CHOOSE i \in headers : \A j \in headers : j <= i]].branch

\* C28: at most one section flag is set at a time, and every record carries
\* the species and product of the section header seen last before its line,
\* also when a header is missing, repeated or out of the expected order.
C28_OneSectionAtATime ==
    /\ Cardinality(ActiveFlags) <= 1
    /\ \A k \in 1..Len(t5Records) :
           /\ LastSection(t5Rows[k]) # 0
           /\ t5Records[k].species = SectionLabels[LastSection(t5Rows[k])][1]
           /\ t5Records[k].product_type = SectionLabels[LastSection(t5Rows[k])][2]

-----------------------------------------------------------------------------
(* Claims about the two copies of the NH parser (C29) *)

\* C29: for the same file name and pages the two copies of parse_stumpage_pdf
\* return the same sequence of records.
C29_CopiesEquivalent ==
    (cpParse.called /\ cpDownload.called) => cpParse.records = cpDownload.records

-----------------------------------------------------------------------------
(* Claims about the page loops (C21) *)

\* the last line before  line  of the page that sets the field of the
\* context, 0 when no line before it does
LastMarker(kind, lines, line, field) ==
    first_or({i \in 1..(line - 1) :
                 /\ IF field = "species" THEN PageLineFacts[lines[i]].species # NA
                    ELSE PageLineFacts[lines[i]].species = NA
                             /\ PageLineFacts[lines[i]].product[kind] # NA
                 /\ \A j \in (i + 1)..(line - 1) :
                        IF field = "species" THEN PageLineFacts[lines[j]].species = NA
                        ELSE PageLineFacts[lines[j]].species # NA
                                 \/ PageLineFacts[lines[j]].product[kind] = NA}, 0)

\* current_species that the section lines of the page before  line  give
SpeciesAt(kind, lines, line) ==
    IF LastMarker(kind, lines, line, "species") = 0 THEN NA
    ELSE PageLineFacts[lines[LastMarker(kind, lines, line, "species")]].species

\* the record of a Texas report carries the species of a section line and
\* the product of a product line that stand above it on its own page
TexasContextFromPage(kind, record, lines, line) ==
    /\ LastMarker(kind, lines, line, "species") > 0
    /\ LastMarker(kind, lines, line, "product") > 0
    /\ record.species = SpeciesAt(kind, lines, line)
    /\ record.product_type =
           product_of(PageLineFacts[lines[LastMarker(kind, lines, line, "product")]].product[kind],
                      SpeciesAt(kind, lines, LastMarker(kind, lines, line, "product")))

\* the record of an NH file carries the region that the text of its own page
\* names, Unknown when the page names none
NhContextFromPage(record, table) ==
    record.region = IF region_of_upper(doc_page_text_upper(table)) = NA THEN "Unknown"
                    ELSE region_of_upper(doc_page_text_upper(table))

\* C21: the context does not pass from one page to the next: every record
\* carries the region (NH) or the species and product (Texas bimonthly and
\* annual) that markers of its own page set, and a Texas region line gives a
\* record only below a section line and a product line of its page.
C21_ContextFromSamePage ==
    \A k \in 1..Len(pgRecords) :
        IF pgKind = "nh" THEN NhContextFromPage(pgRecords[k], pgDoc[pgOrigin[k][1]])
        ELSE TexasContextFromPage(pgKind, pgRecords[k], pgDoc[pgOrigin[k][1]], pgOrigin[k][2])

\* a bimonthly report of two pages of the price table: the first ends with
\* species and product set, the second has a region line with a price right
\* below its title and no record comes from that line; the second page of an
\* NH file names no region while the first did, and its record says Unknown
C21_Witness ==
    /\ pgPage = 2
    /\ \/ /\ pgKind = "bimonthly"
          /\ pgYear # 0
          /\ has_stumpage_prices(pgDoc[1])
          /\ has_stumpage_prices(pgDoc[2])
          /\ LastMarker(pgKind, pgDoc[1], Len(pgDoc[1]) + 1, "species") > 0
          /\ LastMarker(pgKind, pgDoc[1], Len(pgDoc[1]) + 1, "product") > 0
          /\ Len(pgDoc[2]) >= 2
          /\ PageLineFacts[pgDoc[2][2]].region.bimonthly # NA
          /\ PageLineFacts[pgDoc[2][2]].prices.bimonthly # << >>
          /\ \A k \in 1..Len(pgOrigin) : pgOrigin[k] # <<2, 2>>
          /\ pgContext = NoContext
       \/ /\ pgKind = "nh"
          /\ region_of_upper(doc_page_text_upper(pgDoc[1])) # NA
          /\ \E k \in 1..Len(pgRecords) :
                 pgOrigin[k][1] = 2 /\ pgRecords[k].region = "Unknown"

====
